---- MODULE Spec2Model ----
(***************************************************************************)
(* Model of the join protocol engine of lib/join/joinv1:                   *)
(*   - the protocol translator (convert* functions),                       *)
(*   - the server-side stream adapter server.Join (business-logic task,    *)
(*     read task, write task joined by an errgroup),                       *)
(*   - the client-side stream adapter Client.Join (send task),             *)
(*   - the gRPC stream between them.                                       *)
(* The remote end of the server's stream is either any gRPC peer or the    *)
(* repository's own Client; the remote end of the client's stream is       *)
(* server.Join or another gRPC server (variable remote).                   *)
(* The Service behind server.Join is an interface. Spec and the            *)
(* specifications beside it take the channels as the interface declares    *)
(* them (requests send-only, responses receive-only for the Service);      *)
(* DesignSpec takes them in the roles section 5 of the design gives them   *)
(* (the Service receives requests, sends responses and closes responses),  *)
(* which exercises every case of the read and the write task. IsoSpec      *)
(* serves two streams at once with one server, in the roles of the design. *)
(***************************************************************************)
EXTENDS Integers, Sequences, FiniteSets, TLC

\* ------------------------------------------------------------------ bounds
\* Requests one remote end puts on a stream / one caller enqueues.
MaxReq == 2
\* Responses the server at the remote end of a client writes to the stream.
MaxResp == 2
\* Messages the transport buffers per direction before Send blocks.
MaxWire == 1

\* ------------------------------------------------------------------ values
Nil == "nil"

\* A joinv1.ClientInit wire message (generated stub, fields of lines 21-35).
WireClientInit(method) ==
    [ JoinMethod              |-> method,
      TokenName               |-> "tok",
      NodeName                |-> "node-1",
      Role                    |-> "Node",
      AdditionalPrincipals    |-> <<"p1", "p2">>,
      DnsNames                |-> <<"d1">>,
      PublicTlsKey            |-> <<1, 2>>,
      PublicSshKey            |-> <<3>>,
      Expires                 |-> <<3600>>,
      ProxySuppliedParameters |-> <<>> ]

\* A joinv1.JoinRequest: the oneof payload and, for ClientInit, its body.
WireRequest(method) ==
    [ payload |-> "ClientInit", ClientInit |-> <<WireClientInit(method)>> ]

\* A joinv1.JoinRequest whose oneof payload is not set.
WireNoPayload == [ payload |-> "none", ClientInit |-> <<>> ]

\* The wire requests a remote peer puts on the stream.
WireRequests == { WireRequest("token"), WireRequest("iam"), WireNoPayload }

\* messages.ServerInit
ServerInit(method) == [ kind |-> "ServerInit", JoinMethod |-> method ]

\* messages.Result
Result(tls, ssh, host) ==
    [ kind       |-> "Result",
      TLSCert    |-> tls,
      TLSCACerts |-> << <<9>> >>,
      SSHCert    |-> ssh,
      SSHCAKeys  |-> << <<8>> >>,
      HostID     |-> host ]

\* A nil messages.Response interface value.
NilResponse == [ kind |-> "nil" ]

\* A joinv1.ClientInit with the given fields (the others as WireClientInit).
WireClientInitOf(method, principals, expires, proxy) ==
    [ WireClientInit(method) EXCEPT !.AdditionalPrincipals = principals,
                                    !.Expires = expires,
                                    !.ProxySuppliedParameters = proxy ]

\* A joinv1.JoinRequest whose oneof payload is a variant other than ClientInit.
WireOtherPayload == [ payload |-> "other", ClientInit |-> <<>> ]

\* A messages.ServerInit passed by value: it implements Response, and is not
\* the *messages.ServerInit the translator's type switch knows.
ServerInitValue(method) == [ kind |-> "ServerInit value", JoinMethod |-> method ]

\* The inputs the translator is applied to, one at a time.
TrMethods == {"token", "iam", ""}

TrProxy == { <<>>, << [ RemoteAddr |-> "10.0.0.1:3025", ClientVersion |-> "18.0.0" ] >> }

TrWireClientInits ==
    { WireClientInitOf(m, pr, ex, px) :
        m \in TrMethods, pr \in { <<>>, <<"p1", "p2">> }, ex \in { <<>>, <<3600>> },
        px \in TrProxy }

TrWireRequests ==
    { [ payload |-> "ClientInit", ClientInit |-> <<ci>> ] : ci \in TrWireClientInits }
        \cup { WireNoPayload, WireOtherPayload }

TrResults ==
    { Result(tls, ssh, host) :
        tls \in { <<>>, <<1>> }, ssh \in { <<>>, <<1>>, <<2>> }, host \in { "", "host-123" } }

TrResponses ==
    { ServerInit(m) : m \in TrMethods } \cup TrResults
        \cup { NilResponse, ServerInitValue("token") }

\* google.protobuf.Timestamp.AsTime(): a nil timestamp is the Unix epoch.
AsTime(ts) == IF ts = <<>> THEN 0 ELSE ts[1]

\* -------------------------------------------------------------- translator
\* Mutant of convertClientInitToMessage: ProxySuppliedParameters are always
\* set, empty when the wire message has none.
convertClientInitToMessage_ForgedProxy(req) ==
    [ kind                    |-> "ClientInit",
      JoinMethod              |-> req.JoinMethod,
      TokenName               |-> req.TokenName,
      NodeName                |-> req.NodeName,
      Role                    |-> req.Role,
      AdditionalPrincipals    |-> req.AdditionalPrincipals,
      DNSNames                |-> req.DnsNames,
      PublicTLSKey            |-> req.PublicTlsKey,
      PublicSSHKey            |-> req.PublicSshKey,
      Expires                 |-> AsTime(req.Expires),
      ProxySuppliedParameters |->
          IF req.ProxySuppliedParameters # <<>>
          THEN << [ RemoteAddr    |-> req.ProxySuppliedParameters[1].RemoteAddr,
                    ClientVersion |-> req.ProxySuppliedParameters[1].ClientVersion ] >>
          ELSE << [ RemoteAddr |-> "", ClientVersion |-> "" ] >> ]

convertClientInitToMessage(req) ==
    [ kind                    |-> "ClientInit",
      JoinMethod              |-> req.JoinMethod,
      TokenName               |-> req.TokenName,
      NodeName                |-> req.NodeName,
      Role                    |-> req.Role,
      AdditionalPrincipals    |-> req.AdditionalPrincipals,
      DNSNames                |-> req.DnsNames,
      PublicTLSKey            |-> req.PublicTlsKey,
      PublicSSHKey            |-> req.PublicSshKey,
      Expires                 |-> AsTime(req.Expires),
      ProxySuppliedParameters |->
          IF req.ProxySuppliedParameters # <<>>
          THEN << [ RemoteAddr    |-> req.ProxySuppliedParameters[1].RemoteAddr,
                    ClientVersion |-> req.ProxySuppliedParameters[1].ClientVersion ] >>
          ELSE <<>> ]

\* Mutant of convertRequestToMessage: an unknown payload is no error.
convertRequestToMessage_NoError(req) ==
    IF req.payload = "ClientInit"
    THEN [ msg |-> <<convertClientInitToMessage(req.ClientInit[1])>>, err |-> Nil ]
    ELSE [ msg |-> <<>>, err |-> Nil ]

convertRequestToMessage(req) ==
    IF req.payload = "ClientInit"
    THEN [ msg |-> <<convertClientInitToMessage(req.ClientInit[1])>>, err |-> Nil ]
    ELSE [ msg |-> <<>>, err |-> "BadParameter: unrecognized join request message type" ]

convertServerInitFromMessage(msg) == [ JoinMethod |-> msg.JoinMethod ]

convertResultFromMessage(msg) ==
    [ TlsCert    |-> msg.TLSCert,
      TlsCaCerts |-> msg.TLSCACerts,
      SshCert    |-> msg.TLSCert,
      SshCaKeys  |-> msg.SSHCAKeys,
      HostId     |-> msg.HostID ]

\* Mutant of convertResponseFromMessage: an unknown Response is encoded as
\* a wire response with no payload.
convertResponseFromMessage_EmptyDefault(resp) ==
    CASE resp.kind = "ServerInit" ->
           [ msg |-> << [ payload |-> "Init", Init |-> <<convertServerInitFromMessage(resp)>>,
                          Result |-> <<>> ] >>,
             err |-> Nil ]
      [] resp.kind = "Result" ->
           [ msg |-> << [ payload |-> "Result", Init |-> <<>>,
                          Result |-> <<convertResultFromMessage(resp)>> ] >>,
             err |-> Nil ]
      [] OTHER ->
           [ msg |-> << [ payload |-> "none", Init |-> <<>>, Result |-> <<>> ] >>,
             err |-> Nil ]

convertResponseFromMessage(resp) ==
    CASE resp.kind = "ServerInit" ->
           [ msg |-> << [ payload |-> "Init", Init |-> <<convertServerInitFromMessage(resp)>>,
                          Result |-> <<>> ] >>,
             err |-> Nil ]
      [] resp.kind = "Result" ->
           [ msg |-> << [ payload |-> "Result", Init |-> <<>>,
                          Result |-> <<convertResultFromMessage(resp)>> ] >>,
             err |-> Nil ]
      [] OTHER ->
           [ msg |-> <<>>, err |-> "BadParameter: unrecognized join response message type" ]

\* The client direction of the translator (section 4.2 of the design: "and
\* vice versa for the client direction"); the repository's source has no
\* code for it.
\* timestamppb.New: the wire form of a time.
NewTimestamp(t) == <<t>>

\* encodeRequest: a Request to its wire form.
encodeRequest(req) ==
    IF req.kind = "ClientInit"
    THEN [ msg |-> << [ payload |-> "ClientInit",
                        ClientInit |-> <<
                          [ JoinMethod              |-> req.JoinMethod,
                            TokenName               |-> req.TokenName,
                            NodeName                |-> req.NodeName,
                            Role                    |-> req.Role,
                            AdditionalPrincipals    |-> req.AdditionalPrincipals,
                            DnsNames                |-> req.DNSNames,
                            PublicTlsKey            |-> req.PublicTLSKey,
                            PublicSshKey            |-> req.PublicSSHKey,
                            Expires                 |-> NewTimestamp(req.Expires),
                            ProxySuppliedParameters |-> req.ProxySuppliedParameters ] >> ] >>,
           err |-> Nil ]
    ELSE [ msg |-> <<>>, err |-> "BadParameter: unrecognized join request message type" ]

\* decodeResponse: a wire response to a Response.
decodeResponse(wire) ==
    CASE wire.payload = "Init" ->
           [ msg |-> << [ kind |-> "ServerInit", JoinMethod |-> wire.Init[1].JoinMethod ] >>,
             err |-> Nil ]
      [] wire.payload = "Result" ->
           [ msg |-> << [ kind       |-> "Result",
                          TLSCert    |-> wire.Result[1].TlsCert,
                          TLSCACerts |-> wire.Result[1].TlsCaCerts,
                          SSHCert    |-> wire.Result[1].SshCert,
                          SSHCAKeys  |-> wire.Result[1].SshCaKeys,
                          HostID     |-> wire.Result[1].HostId ] >>,
             err |-> Nil ]
      [] OTHER ->
           [ msg |-> <<>>, err |-> "BadParameter: unrecognized join response message type" ]

\* A messages.ClientInit with the given fields.
ClientInitOf(method, principals, expires, proxy) ==
    [ kind                    |-> "ClientInit",
      JoinMethod              |-> method,
      TokenName               |-> "tok",
      NodeName                |-> "node-1",
      Role                    |-> "Node",
      AdditionalPrincipals    |-> principals,
      DNSNames                |-> <<"d1">>,
      PublicTLSKey            |-> <<1, 2>>,
      PublicSSHKey            |-> <<3>>,
      Expires                 |-> expires,
      ProxySuppliedParameters |-> proxy ]

TrClientInits ==
    { ClientInitOf(m, pr, ex, px) :
        m \in TrMethods, pr \in { <<>>, <<"p1", "p2">> }, ex \in { 0, 3600 }, px \in TrProxy }

\* ------------------------------------------------------------------- state
VARIABLES
    remote,          \* the two ends of the stream: server.Join and a gRPC peer
                     \* ("Peer"), server.Join and Client.Join ("Client"), or a gRPC
                     \* server that is not this package's and Client.Join ("Server")
    streamErr,       \* server stream.Context().Err(): Nil or "Canceled"
    c2s,             \* wire, client to server: requests sent and not yet received
    c2sClosed,       \* the remote end half-closed its send side (CloseSend)
    s2c,             \* wire, server to client: responses sent and not yet received
    srvPc,           \* server.Join: "idle", "wait" (in g.Wait), "returned"
    srvRet,          \* server.Join's result
    ctxErr,          \* ctx.Err() of the errgroup context: Nil when not done
    groupErr,        \* the errgroup's recorded error
    svcPc,           \* business-logic task: "idle", "run", "sending" (blocked in a
                     \* send on requests), "receiving" (blocked in a receive from
                     \* responses), "recvRequest" (blocked in a receive from
                     \* requests), "sendResponse" (blocked in a send on
                     \* responses), "done", "panicked"
    svcRet,          \* business-logic task's result
    rdPc,            \* read task: "idle", "recv", "send", "done", "panicked"
    rdMsg,           \* read task: the decoded request it is forwarding
    rdRet,           \* read task's result
    wrPc,            \* write task: "idle", "select", "done"
    wrRet,           \* write task's result
    requestsClosed,  \* number of close(requests) executed
    firstFail,       \* history: the first task that returned an error, if any
    wireIn,          \* history: wire requests stream.Recv returned
    wireOut,         \* history: wire responses written to the stream
    rdSawEOF,        \* history: stream.Recv returned io.EOF to the read task
    fault,           \* history: a Recv or Send failed on a stream that was not cancelled
    trPc,            \* a translator function applied alone: "idle", "call", "done"
    trOp,            \* which one
    trIn,            \* its argument
    trOut,           \* its results
    svcState,        \* the Join Service's protocol state ("unspecified": any Service;
                     \* "unregistered", "missing": no server yet, a server with none)
    svcErr,          \* the failure the Join Service has decided to return
    cliPc,           \* Client.Join: "idle", "open", "go", "returned"
    cliRet,          \* Client.Join's result
    cliCtxErr,       \* Err() of the context Client.Join opened the stream under
    cliReqClosed,    \* the caller closed the requests channel
    sendPc,          \* client send task: "idle", "select", "send", "done"
    sendRet,         \* client send task's result
    cliEnq,          \* history: requests the send task took from the channel
    cliSent,         \* history: wire requests the client's stream.Send accepted
    cliDelivered,    \* history: responses delivered on the caller's channel
    responsesClosed, \* the response channel is closed
    svcGot,          \* history: requests the Service received from requests
    svcSent,         \* history: responses the Service sent on responses
    svcMsg,          \* the response the Service is blocked sending, if any
    wrMsg,           \* the wire response the write task holds, if any
    wrTookDone,      \* the write task received it with the context done
    wrSawClosed,     \* history: the write task saw responses closed
    st,              \* two streams served at once: each stream's own state
    bfPc,            \* benchfind Find: "idle", "load", "visit", "returned"
    bfExcludes,      \* cfg.Excludes
    bfPkgs,          \* the packages packages.Load returned, in visit order
    bfNext,          \* index of the package the visit reaches next
    bfSeen,          \* the seen map's keys
    bfResult,        \* result
    bfErr,           \* Find's error
    ksPc,            \* tctl kube_server handler: "idle", "unmarshal", "get", "filter",
                     \* "upsert", "loop", "returned"
    ksOp,            \* which handler runs: "none", "create", "update", "delete"
    ksRaw,           \* the raw resource of createKubeServer or updateKubeServer
    ksRef,           \* deleteKubeServer's ref.Name
    ksCluster,       \* the Kubernetes servers the auth server holds
    ksCluster0,      \* history: the servers it held when the handler was called
    ksServers,       \* the handler's servers slice
    ksName,          \* deleteKubeServer's resolved name
    ksIdx,           \* deleteKubeServer's loop index
    ksCalls,         \* history: the upserts and deletes the handler had the client do
    ksRet            \* the handler's error

streamVars == <<remote, streamErr, c2s, c2sClosed, s2c>>
groupVars  == <<ctxErr, groupErr, firstFail>>
srvVars    == <<srvPc, srvRet, svcPc, svcRet, rdPc, rdMsg, rdRet, wrPc, wrRet,
                requestsClosed>>
trVars     == <<trPc, trOp, trIn, trOut>>
chanVars   == <<responsesClosed, svcGot, svcSent, svcMsg, wrMsg, wrTookDone,
                wrSawClosed>>
isoVars    == <<st>>
bfVars     == <<bfPc, bfExcludes, bfPkgs, bfNext, bfSeen, bfResult, bfErr>>
ksVars     == <<ksPc, ksOp, ksRaw, ksRef, ksCluster, ksCluster0, ksServers, ksName,
                ksIdx, ksCalls, ksRet>>
toolVars   == <<bfVars, ksVars>>
sideVars   == <<chanVars, isoVars, toolVars>>
jsVars     == <<svcState, svcErr>>
histVars   == <<wireIn, wireOut, rdSawEOF, fault, trVars, sideVars>>
cliVars    == <<cliPc, cliRet, cliCtxErr, cliReqClosed, sendPc, sendRet,
                cliEnq, cliSent, cliDelivered>>
vars == <<streamVars, groupVars, srvVars, histVars, jsVars, cliVars>>

\* The errgroup context is done.
ctxDone == ctxErr # Nil

\* The state before a stream is accepted, with who at its remote end.
InitWith(who) ==
    /\ remote = who
    /\ streamErr = Nil
    /\ c2s = <<>>
    /\ c2sClosed = FALSE
    /\ s2c = <<>>
    /\ srvPc = "idle"
    /\ srvRet = Nil
    /\ ctxErr = Nil
    /\ groupErr = Nil
    /\ svcPc = "idle"
    /\ svcRet = Nil
    /\ rdPc = "idle"
    /\ rdMsg = <<>>
    /\ rdRet = Nil
    /\ wrPc = "idle"
    /\ wrRet = Nil
    /\ requestsClosed = 0
    /\ firstFail = <<>>
    /\ wireIn = <<>>
    /\ wireOut = <<>>
    /\ rdSawEOF = FALSE
    /\ fault = FALSE
    /\ cliPc = IF who \in {"Client", "Server"} THEN "open" ELSE "idle"
    /\ cliRet = Nil
    /\ cliCtxErr = Nil
    /\ cliReqClosed = FALSE
    /\ sendPc = "idle"
    /\ sendRet = Nil
    /\ cliEnq = <<>>
    /\ cliSent = <<>>
    /\ cliDelivered = <<>>

\* No translator function is applied alone.
TrIdle ==
    /\ trPc = "idle"
    /\ trOp = "none"
    /\ trIn = <<>>
    /\ trOut = <<>>

\* The Service behind server.Join is any implementation of the interface.
SvcUnspecified ==
    /\ svcState = "unspecified"
    /\ svcErr = Nil

\* The streams of the two-stream specification, and the join method the
\* peer of each asks for (which tells the messages of the two apart).
StreamIds == {"a", "b"}

MethodOf(s) == IF s = "a" THEN "token" ELSE "iam"

\* One stream before server.Join is called for it.
IdleStream ==
    [ pc        |-> "idle",   ret      |-> Nil,
      streamErr |-> Nil,      ctxErr   |-> Nil,     groupErr |-> Nil,
      svcPc     |-> "idle",   rdPc     |-> "idle",  wrPc     |-> "idle",
      rdMsg     |-> <<>>,     reqClosed |-> 0,
      c2s       |-> <<>>,     c2sClosed |-> FALSE,  nSent    |-> 0,
      svcGot    |-> <<>>,     nAnswered |-> 0,      respClosed |-> FALSE,
      wrMsg     |-> <<>>,     wireOut   |-> <<>> ]

\* Nothing has passed the response channel or reached the Service.
ChanIdle ==
    /\ responsesClosed = FALSE
    /\ svcGot = <<>>
    /\ svcSent = <<>>
    /\ svcMsg = <<>>
    /\ wrMsg = <<>>
    /\ wrTookDone = FALSE
    /\ wrSawClosed = FALSE

\* No second stream is served.
IsoIdle == st = [ s \in StreamIds |-> IdleStream ]

BfIdle ==
    /\ bfPc = "idle"
    /\ bfExcludes = <<>>
    /\ bfPkgs = <<>>
    /\ bfNext = 1
    /\ bfSeen = {}
    /\ bfResult = <<>>
    /\ bfErr = Nil

KubeServer(name, hostID, hostname, discovered) ==
    [ name |-> name, hostID |-> hostID, hostname |-> hostname,
      discovered |-> discovered ]

\* A raw resource: one that unmarshals to a Kubernetes server, or one that
\* does not.
RawOf(server) == [ valid |-> TRUE, server |-> server ]
RawGarbage == [ valid |-> FALSE, server |-> KubeServer("", "", "", "") ]

KsIdle ==
    /\ ksPc = "idle"
    /\ ksOp = "none"
    /\ ksRaw = RawGarbage
    /\ ksRef = ""
    /\ ksCluster = <<>>
    /\ ksCluster0 = <<>>
    /\ ksServers = <<>>
    /\ ksName = ""
    /\ ksIdx = 1
    /\ ksCalls = <<>>
    /\ ksRet = Nil

ToolIdle == BfIdle /\ KsIdle

SideIdle == ChanIdle /\ IsoIdle /\ ToolIdle

Init ==
    \E who \in {"Peer", "Client", "Server"} :
        InitWith(who) /\ TrIdle /\ SvcUnspecified /\ SideIdle

\* ------------------------------------------------------------- errgroup
\* Mutant of GroupErrAfter: every error replaces the recorded one.
GroupErrAfter_LastWins(err) ==
    IF err # Nil THEN err ELSE groupErr

\* errgroup.Group: the error g.Wait reports once a task has returned err
\* (errOnce: only the first non-nil error is recorded).
GroupErrAfter(err) ==
    IF err # Nil /\ groupErr = Nil THEN err ELSE groupErr

\* errgroup.Group: the group's context once a task has returned err (the
\* first non-nil error cancels it; a context already done keeps its error).
CtxErrAfter(err) ==
    IF err # Nil /\ ctxErr = Nil THEN "Canceled" ELSE ctxErr

\* A function passed to g.Go returns err.
TaskReturn(task, err) ==
    /\ firstFail' = IF err # Nil /\ firstFail = <<>> THEN <<task, err>> ELSE firstFail
    /\ groupErr' = GroupErrAfter(err)
    /\ ctxErr' = CtxErrAfter(err)

\* ---------------------------------------------------------- Join Service
\* The Service behind server.Join is an interface (messages.go:90-92):
\*   Join(context.Context, chan<- messages.Request, <-chan messages.Response) error
\* It is handed the request channel send-only and the response channel
\* receive-only: it may send on requests, close requests, receive from
\* responses and return. It can neither receive a request, nor send a
\* response, nor close the response channel. The read task is the only other
\* holder of requests and only sends on it; the write task is the only
\* other holder of responses and only receives from it. So no send on
\* requests and no receive from responses ever completes.
\* With svcState = "unspecified" the Service is any implementation of the
\* interface. Otherwise it is the Join Service of the design (section 4.5)
\* behind this interface: no ClientInit reaches it, it is in AwaitingInit
\* until its context is done, then Failed, and it returns its failure.

\* A task of the call has panicked: the process ends, nothing of it runs on.
Crashed == svcPc = "panicked" \/ rdPc = "panicked"

\* The Service returns err: anything when unspecified, its failure otherwise.
SvcReturns(err) ==
    \/ svcState = "unspecified"
    \/ svcState = "Failed" /\ err = svcErr

\* What a step of the Service alone leaves alone.
SvcFrame == UNCHANGED <<streamVars, groupVars, srvVars, histVars, cliVars>>

\* The Service observes its context done while it awaits the ClientInit.
SvcCtxDone ==
    /\ svcPc = "run"
    /\ ~Crashed
    /\ svcState = "AwaitingInit"
    /\ ctxDone
    /\ svcState' = "Failed"
    /\ svcErr' = ctxErr
    /\ SvcFrame

\* ----------------------------------------------------------- server.Join
\* The stream is accepted: the channels and the group are made and the three
\* tasks are started.
ServerAccept ==
    /\ srvPc = "idle"
    /\ remote # "Server"
    /\ remote = "Client" => sendPc # "idle"
    /\ srvPc' = "wait"
    /\ svcPc' = "run"
    /\ rdPc' = "recv"
    /\ wrPc' = "select"
    /\ ctxErr' = streamErr
    /\ UNCHANGED <<streamVars, groupErr, firstFail, srvRet, svcRet, rdMsg, rdRet, wrRet,
                   requestsClosed, histVars, jsVars, cliVars>>

\* What the server's tasks leave alone, but for their own variables: in a
\* step the Service takes part in, and in the others.
ReadFrameSvc ==
    UNCHANGED <<srvPc, srvRet, svcPc, svcRet, wrPc, wrRet, trVars, sideVars, cliVars>>

ReadFrame == ReadFrameSvc /\ UNCHANGED jsVars

WriteFrameSvc ==
    UNCHANGED <<srvPc, srvRet, svcPc, svcRet, rdPc, rdMsg, rdRet, requestsClosed,
                trVars, sideVars, cliVars>>

WriteFrame == WriteFrameSvc /\ UNCHANGED jsVars

\* The error stream.Recv returns, wrapped by the read task: the status of
\* the stream's context when that is done, a transport failure otherwise.
RecvErr ==
    IF streamErr # Nil
    THEN "reading client request from stream: Canceled"
    ELSE "reading client request from stream: Unavailable"

\* Mutant of ReadReturn: an error return skips close(requests).
ReadReturn_NoCloseOnError(err) ==
    /\ rdPc' = "done"
    /\ rdMsg' = <<>>
    /\ rdRet' = err
    /\ requestsClosed' = IF err = Nil THEN requestsClosed + 1 ELSE requestsClosed
    /\ TaskReturn("read", err)

\* The read task returns err; the deferred close(requests) runs. When the
\* Service has closed the channel already, that close panics (close of a
\* closed channel) and the function passed to g.Go never returns.
ReadReturn(err) ==
    /\ rdMsg' = <<>>
    /\ requestsClosed' = requestsClosed + 1
    /\ IF requestsClosed = 0
       THEN /\ rdPc' = "done"
            /\ rdRet' = err
            /\ TaskReturn("read", err)
       ELSE /\ rdPc' = "panicked"
            /\ rdRet' = rdRet
            /\ UNCHANGED groupVars

\* Mutant of ReadRecv: a request that does not decode is skipped.
ReadRecv_SkipsUnrecognized ==
    /\ rdPc = "recv"
    /\ ~Crashed
    /\ c2s # <<>>
    /\ c2s' = Tail(c2s)
    /\ wireIn' = Append(wireIn, Head(c2s))
    /\ LET r == convertRequestToMessage(Head(c2s)) IN
         IF r.err # Nil
         THEN UNCHANGED <<rdPc, rdMsg, rdRet, requestsClosed, groupVars>>
         ELSE /\ rdPc' = "send"
              /\ rdMsg' = r.msg
              /\ UNCHANGED <<rdRet, requestsClosed, groupVars>>
    /\ ReadFrame
    /\ UNCHANGED <<remote, streamErr, c2sClosed, s2c, wireOut, rdSawEOF, fault>>

\* stream.Recv returns a request; it is decoded, and the task moves to the
\* select that forwards it, or returns the decode error.
ReadRecv ==
    /\ rdPc = "recv"
    /\ ~Crashed
    /\ c2s # <<>>
    /\ c2s' = Tail(c2s)
    /\ wireIn' = Append(wireIn, Head(c2s))
    /\ LET r == convertRequestToMessage(Head(c2s)) IN
         IF r.err # Nil
         THEN ReadReturn(r.err)
         ELSE /\ rdPc' = "send"
              /\ rdMsg' = r.msg
              /\ UNCHANGED <<rdRet, requestsClosed, groupVars>>
    /\ ReadFrame
    /\ UNCHANGED <<remote, streamErr, c2sClosed, s2c, wireOut, rdSawEOF, fault>>

\* Mutant of ReadEOF: io.EOF is returned like any other Recv error.
ReadEOF_AsError ==
    /\ rdPc = "recv"
    /\ ~Crashed
    /\ c2s = <<>>
    /\ c2sClosed
    /\ rdSawEOF' = TRUE
    /\ ReadReturn(RecvErr)
    /\ ReadFrame
    /\ UNCHANGED <<streamVars, wireIn, wireOut, fault>>

\* stream.Recv returns io.EOF: the remote end half-closed and nothing is left.
ReadEOF ==
    /\ rdPc = "recv"
    /\ ~Crashed
    /\ c2s = <<>>
    /\ c2sClosed
    /\ rdSawEOF' = TRUE
    /\ ReadReturn(Nil)
    /\ ReadFrame
    /\ UNCHANGED <<streamVars, wireIn, wireOut, fault>>

\* stream.Recv returns an error other than io.EOF: the stream's context is
\* done, or the transport failed (which it may at any time).
ReadRecvErr ==
    /\ rdPc = "recv"
    /\ ~Crashed
    /\ fault' = (fault \/ streamErr = Nil)
    /\ ReadReturn(RecvErr)
    /\ ReadFrame
    /\ UNCHANGED <<streamVars, wireIn, wireOut, rdSawEOF>>

\* select, case <-ctx.Done(): the only case that can fire while requests is
\* open, as nothing receives from requests.
ReadCtxDone ==
    /\ rdPc = "send"
    /\ ~Crashed
    /\ ctxDone
    /\ ReadReturn(ctxErr)
    /\ ReadFrame
    /\ UNCHANGED <<streamVars, wireIn, wireOut, rdSawEOF, fault>>

\* select, case requests <- msg, the Service having closed requests: the send
\* panics (send on closed channel), and so does the deferred close.
ReadSendPanics ==
    /\ rdPc = "send"
    /\ ~Crashed
    /\ requestsClosed >= 1
    /\ rdPc' = "panicked"
    /\ requestsClosed' = requestsClosed + 1
    /\ ReadFrame
    /\ UNCHANGED <<streamVars, groupVars, rdMsg, rdRet, wireIn, wireOut, rdSawEOF,
                   fault>>

\* The write task returns err.
WriteReturn(err) ==
    /\ wrPc' = "done"
    /\ wrRet' = err
    /\ TaskReturn("write", err)

\* Mutant of WriteCtxDone: the cancellation is swallowed.
WriteCtxDone_ReturnsNil ==
    /\ wrPc = "select"
    /\ ~Crashed
    /\ ctxDone
    /\ WriteReturn(Nil)
    /\ WriteFrame
    /\ UNCHANGED <<streamVars, wireIn, wireOut, rdSawEOF, fault>>

\* select, case <-ctx.Done().
WriteCtxDone ==
    /\ wrPc = "select"
    /\ ~Crashed
    /\ ctxDone
    /\ WriteReturn(ctxErr)
    /\ WriteFrame
    /\ UNCHANGED <<streamVars, wireIn, wireOut, rdSawEOF, fault>>

\* ---------------------------------------- the channels used as designed
\* Section 5 of the design gives the channels these roles: the request
\* channel is written only by the read task and read only by the business
\* logic, the response channel is written only by the business logic and
\* read only by the write task, which the business logic signals by closing
\* it. The channels are unbuffered: a send completes when a receiver waits,
\* a receive when a sender waits or the channel is closed. The steps of the
\* two tasks below (lines 133 and 142-152) are guarded by what the other end
\* of the channel is doing; the steps of a Service that keeps the designed
\* roles (it waits for a request, offers a response, closes the response
\* channel) are actions of their own, taken from the design.

\* The error stream.Send returns, wrapped by the write task: the status of
\* the stream's context when that is done, a transport failure otherwise.
SendErr ==
    IF streamErr # Nil
    THEN "sending server response to stream: Canceled"
    ELSE "sending server response to stream: Unavailable"

\* The responses a Service sends: the two the design names, and a value the
\* encoder does not know.
ServiceResponses == { ServerInit("token"), Result(<<1>>, <<2>>, "host-123"), NilResponse }

\* What a step on the channels leaves alone.
ChanFrame == UNCHANGED <<srvPc, srvRet, svcRet, trVars, isoVars, toolVars, jsVars,
                         cliVars>>

\* The Service starts a receive from requests, and blocks in it.
SvcRecvRequest ==
    /\ svcPc = "run"
    /\ svcPc' = "recvRequest"
    /\ ChanFrame
    /\ UNCHANGED <<streamVars, groupVars, rdPc, rdMsg, rdRet, requestsClosed, wrPc,
                   wrRet, wireIn, wireOut, rdSawEOF, fault, chanVars>>

\* The Service starts a send of resp on responses, and blocks in it.
SvcSendResponse(resp) ==
    /\ svcPc = "run"
    /\ ~responsesClosed
    /\ Len(svcSent) < MaxResp
    /\ svcPc' = "sendResponse"
    /\ svcMsg' = <<resp>>
    /\ ChanFrame
    /\ UNCHANGED <<streamVars, groupVars, rdPc, rdMsg, rdRet, requestsClosed, wrPc,
                   wrRet, wireIn, wireOut, rdSawEOF, fault, responsesClosed, svcGot,
                   svcSent, wrMsg, wrTookDone, wrSawClosed>>

\* The blocked Service goes on without the other end: it selects on its
\* context as well and the context is done, or its receive finds requests
\* closed.
SvcUnblock ==
    /\ svcPc \in {"recvRequest", "sendResponse"}
    /\ ctxDone \/ (svcPc = "recvRequest" /\ requestsClosed >= 1)
    /\ svcPc' = "run"
    /\ svcMsg' = <<>>
    /\ ChanFrame
    /\ UNCHANGED <<streamVars, groupVars, rdPc, rdMsg, rdRet, requestsClosed, wrPc,
                   wrRet, wireIn, wireOut, rdSawEOF, fault, responsesClosed, svcGot,
                   svcSent, wrMsg, wrTookDone, wrSawClosed>>

\* select, case requests <- msg: the send completes when a receiver waits on
\* the open channel, and hands it the request.
ReadSend ==
    /\ rdPc = "send"
    /\ requestsClosed = 0
    /\ svcPc = "recvRequest"
    /\ svcPc' = "run"
    /\ svcGot' = Append(svcGot, rdMsg[1])
    /\ rdPc' = "recv"
    /\ rdMsg' = <<>>
    /\ ChanFrame
    /\ UNCHANGED <<streamVars, groupVars, rdRet, requestsClosed, wrPc, wrRet, wireIn,
                   wireOut, rdSawEOF, fault, responsesClosed, svcSent, svcMsg, wrMsg,
                   wrTookDone, wrSawClosed>>

\* The Service closes the response channel.
SvcCloseResponses ==
    /\ svcPc = "run"
    /\ ~responsesClosed
    /\ responsesClosed' = TRUE
    /\ ChanFrame
    /\ UNCHANGED <<streamVars, groupVars, svcPc, rdPc, rdMsg, rdRet, requestsClosed,
                   wrPc, wrRet, wireIn, wireOut, rdSawEOF, fault, svcGot, svcSent,
                   svcMsg, wrMsg, wrTookDone, wrSawClosed>>

\* select, case resp, ok := <-responses with ok false: the channel is closed.
WriteClosed ==
    /\ wrPc = "select"
    /\ responsesClosed
    /\ wrSawClosed' = TRUE
    /\ WriteReturn(Nil)
    /\ ChanFrame
    /\ UNCHANGED <<streamVars, svcPc, rdPc, rdMsg, rdRet, requestsClosed, wireIn,
                   wireOut, rdSawEOF, fault, responsesClosed, svcGot, svcSent, svcMsg,
                   wrMsg, wrTookDone>>

\* select, case resp, ok := <-responses with ok true: the receive completes
\* when a sender waits on the channel, and takes its value. The case is
\* chosen whether or not ctx.Done() is ready as well. resp is encoded, and
\* the task moves to stream.Send or returns the encode error.
WriteRecv ==
    /\ wrPc = "select"
    /\ ~responsesClosed
    /\ svcPc = "sendResponse"
    /\ svcPc' = "run"
    /\ svcMsg' = <<>>
    /\ svcSent' = Append(svcSent, svcMsg[1])
    /\ LET r == convertResponseFromMessage(svcMsg[1]) IN
         IF r.err # Nil
         THEN /\ WriteReturn(r.err)
              /\ UNCHANGED <<wrMsg, wrTookDone>>
         ELSE /\ wrPc' = "send"
              /\ wrMsg' = r.msg
              /\ wrTookDone' = ctxDone
              /\ UNCHANGED <<wrRet, groupVars>>
    /\ ChanFrame
    /\ UNCHANGED <<streamVars, rdPc, rdMsg, rdRet, requestsClosed, wireIn, wireOut,
                   rdSawEOF, fault, responsesClosed, svcGot, wrSawClosed>>

\* Mutant of WriteSend: the message is written twice.
WriteSend_Twice ==
    /\ wrPc = "send"
    /\ streamErr = Nil
    /\ wireOut' = wireOut \o wrMsg \o wrMsg
    /\ wrPc' = "select"
    /\ wrMsg' = <<>>
    /\ wrTookDone' = FALSE
    /\ ChanFrame
    /\ UNCHANGED <<streamVars, groupVars, svcPc, rdPc, rdMsg, rdRet, requestsClosed,
                   wrRet, wireIn, rdSawEOF, fault, responsesClosed, svcGot, svcSent,
                   svcMsg, wrSawClosed>>

\* stream.Send returns nil: the message is written to the stream, whose
\* context is not done, and the task selects again.
WriteSend ==
    /\ wrPc = "send"
    /\ streamErr = Nil
    /\ wireOut' = wireOut \o wrMsg
    /\ wrPc' = "select"
    /\ wrMsg' = <<>>
    /\ wrTookDone' = FALSE
    /\ ChanFrame
    /\ UNCHANGED <<streamVars, groupVars, svcPc, rdPc, rdMsg, rdRet, requestsClosed,
                   wrRet, wireIn, rdSawEOF, fault, responsesClosed, svcGot, svcSent,
                   svcMsg, wrSawClosed>>

\* Mutant of WriteSendErr: the error is dropped and the task selects again.
WriteSendErr_Continues ==
    /\ wrPc = "send"
    /\ fault' = (fault \/ streamErr = Nil)
    /\ wrPc' = "select"
    /\ wrMsg' = <<>>
    /\ wrTookDone' = FALSE
    /\ ChanFrame
    /\ UNCHANGED <<streamVars, groupVars, svcPc, rdPc, rdMsg, rdRet, requestsClosed,
                   wrRet, wireIn, wireOut, rdSawEOF, responsesClosed, svcGot, svcSent,
                   svcMsg, wrSawClosed>>

\* stream.Send returns an error: the stream's context is done, or the
\* transport failed (which it may at any time). Nothing is written.
WriteSendErr ==
    /\ wrPc = "send"
    /\ fault' = (fault \/ streamErr = Nil)
    /\ wrMsg' = <<>>
    /\ wrTookDone' = FALSE
    /\ WriteReturn(SendErr)
    /\ ChanFrame
    /\ UNCHANGED <<streamVars, svcPc, rdPc, rdMsg, rdRet, requestsClosed, wireIn,
                   wireOut, rdSawEOF, responsesClosed, svcGot, svcSent, svcMsg,
                   wrSawClosed>>

\* -------------------------------------- the channels used as declared
\* The Service sends on requests: nothing receives from that channel, so the
\* send blocks; on a channel the read task has closed it panics.
SvcSendRequest ==
    /\ svcPc = "run"
    /\ ~Crashed
    /\ svcState = "unspecified"
    /\ svcPc' = IF requestsClosed = 0 THEN "sending" ELSE "panicked"
    /\ UNCHANGED <<streamVars, groupVars, srvPc, srvRet, svcRet, rdPc, rdMsg, rdRet,
                   wrPc, wrRet, requestsClosed, histVars, jsVars, cliVars>>

\* The read task closes requests while the Service is blocked in a send on
\* it: the send panics.
SvcSendPanics ==
    /\ svcPc = "sending"
    /\ ~Crashed
    /\ requestsClosed >= 1
    /\ svcPc' = "panicked"
    /\ UNCHANGED <<streamVars, groupVars, srvPc, srvRet, svcRet, rdPc, rdMsg, rdRet,
                   wrPc, wrRet, requestsClosed, histVars, jsVars, cliVars>>

\* The Service receives from responses: nothing sends on that channel or
\* closes it, so the receive blocks.
SvcRecvResponse ==
    /\ svcPc = "run"
    /\ ~Crashed
    /\ svcState = "unspecified"
    /\ svcPc' = "receiving"
    /\ UNCHANGED <<streamVars, groupVars, srvPc, srvRet, svcRet, rdPc, rdMsg, rdRet,
                   wrPc, wrRet, requestsClosed, histVars, jsVars, cliVars>>

\* The blocked Service selects on its context as well, and the context is
\* done: it goes on.
SvcWake ==
    /\ svcPc \in {"sending", "receiving"}
    /\ ~Crashed
    /\ ctxDone
    /\ svcPc' = "run"
    /\ UNCHANGED <<streamVars, groupVars, srvPc, srvRet, svcRet, rdPc, rdMsg, rdRet,
                   wrPc, wrRet, requestsClosed, histVars, jsVars, cliVars>>

\* The Service closes requests (a close of a send-only channel is legal):
\* the read task's deferred close will find it closed. A second close
\* panics in the Service.
SvcCloseRequests ==
    /\ svcPc = "run"
    /\ ~Crashed
    /\ svcState = "unspecified"
    /\ requestsClosed' = requestsClosed + 1
    /\ svcPc' = IF requestsClosed = 0 THEN svcPc ELSE "panicked"
    /\ UNCHANGED <<streamVars, groupVars, srvPc, srvRet, svcRet, rdPc, rdMsg, rdRet,
                   wrPc, wrRet, histVars, jsVars, cliVars>>

\* The errors s.service.Join may return: nil, an error of its own, or the
\* error of the context it was given.
SvcResults == {Nil, "service error"} \cup {ctxErr} \cup {svcErr}

\* s.service.Join returns err.
SvcReturn(err) ==
    /\ svcPc = "run"
    /\ ~Crashed
    /\ SvcReturns(err)
    /\ svcPc' = "done"
    /\ svcRet' = err
    /\ TaskReturn("service", err)
    /\ UNCHANGED <<streamVars, srvPc, srvRet, rdPc, rdMsg, rdRet, wrPc, wrRet,
                   requestsClosed, histVars, jsVars, cliVars>>

\* Mutant of JoinReturn: Join returns at the first error, without waiting
\* for the other tasks.
JoinReturn_AtFirstError ==
    /\ srvPc = "wait"
    /\ ~Crashed
    /\ groupErr # Nil \/ (svcPc = "done" /\ rdPc = "done" /\ wrPc = "done")
    /\ srvPc' = "returned"
    /\ srvRet' = groupErr
    /\ ctxErr' = IF ctxErr = Nil THEN "Canceled" ELSE ctxErr
    /\ UNCHANGED <<streamVars, groupErr, firstFail, svcPc, svcRet, rdPc, rdMsg, rdRet,
                   wrPc, wrRet, requestsClosed, histVars, jsVars, cliVars>>

\* Mutant of JoinReturn: a cancellation is not reported as an error.
JoinReturn_CancelIsNil ==
    /\ srvPc = "wait"
    /\ svcPc = "done" /\ rdPc = "done" /\ wrPc = "done"
    /\ srvPc' = "returned"
    /\ srvRet' = IF groupErr = "Canceled" THEN Nil ELSE groupErr
    /\ ctxErr' = IF ctxErr = Nil THEN "Canceled" ELSE ctxErr
    /\ UNCHANGED <<streamVars, groupErr, firstFail, svcPc, svcRet, rdPc, rdMsg, rdRet,
                   wrPc, wrRet, requestsClosed, histVars, jsVars, cliVars>>

\* g.Wait returns once the three tasks have returned: it cancels the group's
\* context and Join returns the group's error.
JoinReturn ==
    /\ srvPc = "wait"
    /\ svcPc = "done" /\ rdPc = "done" /\ wrPc = "done"
    /\ srvPc' = "returned"
    /\ srvRet' = groupErr
    /\ ctxErr' = IF ctxErr = Nil THEN "Canceled" ELSE ctxErr
    /\ UNCHANGED <<streamVars, groupErr, firstFail, svcPc, svcRet, rdPc, rdMsg, rdRet,
                   wrPc, wrRet, requestsClosed, histVars, jsVars, cliVars>>

\* ------------------------------------------------------------ the stream
\* Mutant of CancelStream: the group's context is not derived from the
\* stream's.
CancelStream_GroupDeaf(reason) ==
    /\ streamErr' = reason
    /\ ctxErr' = ctxErr

\* The server's stream.Context() is cancelled with reason; the group's
\* context, derived from it, is done with the same error unless already done.
CancelStream(reason) ==
    /\ streamErr' = reason
    /\ ctxErr' = IF srvPc # "idle" /\ ctxErr = Nil THEN reason ELSE ctxErr

\* A remote peer sends a wire request, while the read task is waiting for
\* one or holds the one before. (Nothing is delivered on a stream whose call
\* is cancelled.)
PeerSend(w) ==
    /\ remote = "Peer"
    /\ srvPc = "wait"
    /\ ~Crashed
    /\ streamErr = Nil
    /\ ~c2sClosed
    /\ rdPc \in {"recv", "send"}
    /\ Len(wireIn) + Len(c2s) < MaxReq
    /\ Len(c2s) < MaxWire
    /\ c2s' = Append(c2s, w)
    /\ UNCHANGED <<remote, streamErr, c2sClosed, s2c, groupVars, srvVars, histVars,
                   jsVars, cliVars>>

\* A remote peer half-closes its send side, possibly right after a request
\* that is still in transit (stream.Recv reports it after everything sent
\* before it).
PeerCloseSend ==
    /\ remote = "Peer"
    /\ srvPc = "wait"
    /\ ~Crashed
    /\ streamErr = Nil
    /\ ~c2sClosed
    /\ rdPc \in {"recv", "send"}
    /\ c2sClosed' = TRUE
    /\ UNCHANGED <<remote, streamErr, c2s, s2c, groupVars, srvVars, histVars, jsVars,
                   cliVars>>

\* A remote peer cancels the call.
PeerCancel(reason) ==
    /\ remote = "Peer"
    /\ srvPc = "wait"
    /\ ~Crashed
    /\ streamErr = Nil
    /\ CancelStream(reason)
    /\ UNCHANGED <<remote, c2s, c2sClosed, s2c, groupErr, firstFail, srvVars, histVars,
                   jsVars, cliVars>>

\* The wire responses a server at the remote end of Client.Join writes.
ServerWrites ==
    { convertResponseFromMessage(r).msg[1] :
        r \in { ServerInit("token"), Result(<<1>>, <<2>>, "host-123") } }

\* A server at the remote end of Client.Join writes a response to the
\* stream the client has opened.
ServerPeerSend(w) ==
    /\ remote = "Server"
    /\ sendPc # "idle"
    /\ cliCtxErr = Nil
    /\ Len(wireOut) < MaxResp
    /\ s2c' = Append(s2c, w)
    /\ wireOut' = Append(wireOut, w)
    /\ UNCHANGED <<remote, streamErr, c2s, c2sClosed, groupVars, srvVars, wireIn,
                   rdSawEOF, fault, trVars, sideVars, jsVars, cliVars>>

\* A server at the remote end of Client.Join receives a request.
ServerPeerRecv ==
    /\ remote = "Server"
    /\ c2s # <<>>
    /\ c2s' = Tail(c2s)
    /\ UNCHANGED <<remote, streamErr, c2sClosed, s2c, groupVars, srvVars, histVars,
                   jsVars, cliVars>>

\* ----------------------------------------------------------- Client.Join
\* messages.ClientInit values a caller enqueues.
ClientInit(method) == convertClientInitToMessage(WireClientInit(method))

ClientRequests == { ClientInit("token") }

\* The wire request stream.Send() transmits for req: Send is called without
\* req, so what goes out carries no payload.
SentWire(req) == WireNoPayload

\* c.grpcClient.Join(ctx) succeeds: the group is made and the send task is
\* started.
ClientOpen ==
    /\ cliPc = "open"
    /\ cliCtxErr = Nil
    /\ cliPc' = "go"
    /\ sendPc' = "select"
    /\ UNCHANGED <<streamVars, groupVars, srvVars, histVars, jsVars, cliRet, cliCtxErr,
                   cliReqClosed, sendRet, cliEnq, cliSent, cliDelivered>>

\* c.grpcClient.Join(ctx) fails: Join returns the error; the deferred
\* cancel runs.
\* Mutant of ClientOpenFail: the send task is started before the error of
\* opening the stream is looked at.
ClientOpenFail_StartsTask ==
    /\ cliPc = "open"
    /\ cliPc' = "returned"
    /\ cliRet' = "open stream error"
    /\ cliCtxErr' = IF cliCtxErr = Nil THEN "Canceled" ELSE cliCtxErr
    /\ sendPc' = "select"
    /\ UNCHANGED <<streamVars, groupVars, srvVars, histVars, jsVars, cliReqClosed,
                   sendRet, cliEnq, cliSent, cliDelivered>>

ClientOpenFail ==
    /\ cliPc = "open"
    /\ cliPc' = "returned"
    /\ cliRet' = "open stream error"
    /\ cliCtxErr' = IF cliCtxErr = Nil THEN "Canceled" ELSE cliCtxErr
    /\ UNCHANGED <<streamVars, groupVars, srvVars, histVars, jsVars, cliReqClosed,
                   sendPc, sendRet, cliEnq, cliSent, cliDelivered>>

\* What Join reports when control reaches the end of its body: the body has
\* no return statement there, so the source fixes no value.
ClientEndResults == {Nil, "unspecified error"}

\* Mutant of ClientReturn: the deferred cancel is missing.
ClientReturn_NoCancel(res) ==
    /\ cliPc = "go"
    /\ cliPc' = "returned"
    /\ cliRet' = res
    /\ UNCHANGED <<streamVars, groupVars, srvVars, histVars, jsVars, cliCtxErr,
                   cliReqClosed, sendPc, sendRet, cliEnq, cliSent, cliDelivered>>

\* Control reaches the end of Join's body, right after g.Go: nothing waits
\* for the group; the deferred cancel runs.
ClientReturn(res) ==
    /\ cliPc = "go"
    /\ cliPc' = "returned"
    /\ cliRet' = res
    /\ cliCtxErr' = IF cliCtxErr = Nil THEN "Canceled" ELSE cliCtxErr
    /\ UNCHANGED <<streamVars, groupVars, srvVars, histVars, jsVars, cliReqClosed,
                   sendPc, sendRet, cliEnq, cliSent, cliDelivered>>

\* The caller cancels the context it passed to Join.
CallerCancel ==
    /\ cliPc \in {"open", "go"}
    /\ cliCtxErr = Nil
    /\ cliCtxErr' = "Canceled"
    /\ UNCHANGED <<streamVars, groupVars, srvVars, histVars, jsVars, cliPc, cliRet,
                   cliReqClosed, sendPc, sendRet, cliEnq, cliSent, cliDelivered>>

\* The caller closes the requests channel.
CallerClose ==
    /\ remote \in {"Client", "Server"}
    /\ sendPc # "done"
    /\ ~cliReqClosed
    /\ cliReqClosed' = TRUE
    /\ UNCHANGED <<streamVars, groupVars, srvVars, histVars, jsVars, cliPc, cliRet,
                   cliCtxErr, sendPc, sendRet, cliEnq, cliSent, cliDelivered>>

\* The cancellation of the client's context reaches the server: the stream
\* is reset and the server's stream.Context() is cancelled.
ClientCancelArrives ==
    /\ remote = "Client"
    /\ sendPc # "idle"
    /\ srvPc # "returned"
    /\ cliCtxErr # Nil
    /\ streamErr = Nil
    /\ CancelStream("Canceled")
    /\ UNCHANGED <<remote, c2s, c2sClosed, s2c, groupErr, firstFail, srvVars, histVars,
                   jsVars, cliVars>>

\* What the send task leaves alone, but for its own variables.
SendFrame ==
    UNCHANGED <<groupVars, srvVars, wireIn, wireOut, rdSawEOF, trVars, sideVars, jsVars,
                cliPc, cliRet, cliCtxErr, cliReqClosed, cliDelivered>>

\* The send task returns err.
SendReturn(err) ==
    /\ sendPc' = "done"
    /\ sendRet' = err
    /\ UNCHANGED <<streamVars, cliEnq, cliSent>>

\* select, case <-ctx.Done().
SendCtxDone ==
    /\ sendPc = "select"
    /\ cliCtxErr # Nil
    /\ SendReturn(cliCtxErr)
    /\ SendFrame
    /\ UNCHANGED fault

\* select, case req, ok := <-requests with ok false.
SendClosed ==
    /\ sendPc = "select"
    /\ cliReqClosed
    /\ SendReturn(Nil)
    /\ SendFrame
    /\ UNCHANGED fault

\* select, case req, ok := <-requests with ok true: the caller's send of req
\* and this receive are one step.
SendTake(req) ==
    /\ sendPc = "select"
    /\ ~cliReqClosed
    /\ Len(cliEnq) < MaxReq
    /\ cliEnq' = Append(cliEnq, req)
    /\ sendPc' = "send"
    /\ SendFrame
    /\ UNCHANGED <<streamVars, sendRet, cliSent, fault>>

\* stream.Send() accepts the message.
SendSend ==
    /\ sendPc = "send"
    /\ cliCtxErr = Nil
    /\ Len(c2s) < MaxWire
    /\ c2s' = Append(c2s, SentWire(cliEnq[Len(cliEnq)]))
    /\ cliSent' = Append(cliSent, SentWire(cliEnq[Len(cliEnq)]))
    /\ sendPc' = "select"
    /\ SendFrame
    /\ UNCHANGED <<remote, streamErr, c2sClosed, s2c, sendRet, cliEnq, fault>>

\* stream.Send() returns an error: the stream's context is done, the server
\* ended the stream, or the transport failed (which it may at any time).
SendSendErr ==
    /\ sendPc = "send"
    /\ fault' = (fault \/ (cliCtxErr = Nil /\ srvPc # "returned"))
    /\ SendReturn("sending client request to stream")
    /\ SendFrame

\* ------------------------------------------------------- specifications
\* The read task when requests is received from and closed by no one else,
\* and when the Service closes it.
ReadTask == ReadRecv \/ ReadEOF \/ ReadRecvErr \/ ReadCtxDone \/ ReadSendPanics

WriteTask ==
    \/ WriteCtxDone
    \/ WriteClosed
    \/ WriteRecv
    \/ WriteSend
    \/ WriteSendErr

\* What any Service may do with what it is given.
ServiceOps ==
    \/ SvcSendRequest
    \/ SvcSendPanics
    \/ SvcRecvResponse
    \/ SvcWake
    \/ SvcCloseRequests

ServiceTask == ServiceOps \/ \E err \in SvcResults : SvcReturn(err)

Remote ==
    \/ \E w \in WireRequests : PeerSend(w)
    \/ PeerCloseSend
    \/ PeerCancel("Canceled")
    \/ \E w \in ServerWrites : ServerPeerSend(w)
    \/ ServerPeerRecv

ClientJoin ==
    \/ ClientOpen
    \/ ClientOpenFail
    \/ \E res \in ClientEndResults : ClientReturn(res)
    \/ CallerCancel
    \/ CallerClose
    \/ ClientCancelArrives

SendTask ==
    \/ SendCtxDone
    \/ SendClosed
    \/ \E req \in ClientRequests : SendTake(req)
    \/ SendSend
    \/ SendSendErr

\* With the channels as declared nothing sends on responses or closes it:
\* of the write task only the ctx.Done() case runs.
Next ==
    \/ ServerAccept
    \/ ReadTask
    \/ WriteCtxDone
    \/ ServiceTask
    \/ JoinReturn
    \/ Remote
    \/ ClientJoin
    \/ SendTask

Spec == Init /\ [][Next]_vars

\* The goroutines of the server are scheduled, the Service wakes when its
\* context is done and returns, however often it blocks before. A Recv is
\* only bound to return an error once the stream's context is done; nothing
\* is assumed of what a remote peer does.
ReadTaskFair ==
    \/ ReadRecv
    \/ ReadEOF
    \/ (streamErr # Nil /\ ReadRecvErr)
    \/ ReadCtxDone
    \/ ReadSendPanics

WriteTaskFair == WriteCtxDone

ServiceFair == \E err \in SvcResults : SvcReturn(err)

\* server.Join alone, with a gRPC peer at the remote end of its stream,
\* under this fairness. What the tasks do with a request depends only on
\* whether it decodes: the peer sends one request that does and one that
\* does not.
ServerRemote ==
    \/ \E w \in {WireRequest("token"), WireNoPayload} : PeerSend(w)
    \/ PeerCloseSend
    \/ PeerCancel("Canceled")

ServerNext ==
    \/ ServerAccept
    \/ ReadTask
    \/ WriteCtxDone
    \/ ServiceTask
    \/ JoinReturn
    \/ ServerRemote

ServerFairInit == InitWith("Peer") /\ TrIdle /\ SvcUnspecified /\ SideIdle

ServerFairSpec ==
    /\ ServerFairInit
    /\ [][ServerNext]_vars
    /\ WF_vars(ReadTaskFair)
    /\ WF_vars(WriteTaskFair)
    /\ WF_vars(SvcWake)
    /\ SF_vars(ServiceFair)
    /\ WF_vars(JoinReturn)

\* server.Join with a Service that uses the channels as designed behind it,
\* and a gRPC peer at the remote end of its stream.

\* The Service of the design: it waits for requests, offers responses,
\* closes the response channel and returns, in any order and at any moment.
DesignService ==
    \/ SvcRecvRequest
    \/ \E resp \in ServiceResponses : SvcSendResponse(resp)
    \/ SvcUnblock
    \/ SvcCloseResponses
    \/ \E err \in SvcResults : SvcReturn(err)

DesignRemote ==
    \/ \E w \in WireRequests : PeerSend(w)
    \/ PeerCloseSend
    \/ PeerCancel("Canceled")

\* No one but the read task closes requests, so of the read task every case
\* but the panic runs.
DesignNext ==
    \/ ServerAccept
    \/ ReadRecv
    \/ ReadEOF
    \/ ReadRecvErr
    \/ ReadCtxDone
    \/ ReadSend
    \/ WriteTask
    \/ DesignService
    \/ JoinReturn
    \/ DesignRemote

DesignInit == InitWith("Peer") /\ TrIdle /\ SvcUnspecified /\ SideIdle

DesignSpec == DesignInit /\ [][DesignNext]_vars

\* The goroutines of the server are scheduled; once its context is done the
\* Service stops waiting on a channel and returns, however often it blocks
\* before. A Recv or a Send is only bound to return an error once the
\* stream's context is done; nothing is assumed of what a remote peer does,
\* nor of what the Service does while its context is live.
DesignReadFair ==
    \/ ReadRecv
    \/ ReadEOF
    \/ (streamErr # Nil /\ ReadRecvErr)
    \/ ReadCtxDone

DesignWriteFair ==
    \/ WriteCtxDone
    \/ WriteClosed
    \/ (streamErr # Nil /\ WriteSendErr)

DesignServiceFair == ctxDone /\ \E err \in SvcResults : SvcReturn(err)

DesignFairSpec ==
    /\ DesignInit
    /\ [][DesignNext]_vars
    /\ WF_vars(DesignReadFair)
    /\ WF_vars(DesignWriteFair)
    /\ WF_vars(ctxDone /\ SvcUnblock)
    /\ SF_vars(DesignServiceFair)
    /\ WF_vars(JoinReturn)

\* server.Join with the Join Service of the design behind it, and a gRPC peer
\* at the remote end that asks for a method with a verifier or for one
\* without.
JoinServiceRemote ==
    \/ \E w \in {WireRequest("token"), WireRequest("unknown-method")} : PeerSend(w)
    \/ PeerCloseSend
    \/ PeerCancel("Canceled")

\* The read task without the panics only a Service that closes requests
\* brings about: the Join Service of the design does not close it.
JoinServiceRead == ReadRecv \/ ReadEOF \/ ReadRecvErr \/ ReadCtxDone

JoinServiceNext ==
    \/ ServerAccept
    \/ JoinServiceRead
    \/ WriteCtxDone
    \/ SvcCtxDone
    \/ (\E err \in SvcResults : SvcReturn(err))
    \/ JoinReturn
    \/ JoinServiceRemote

JoinServiceInit ==
    /\ InitWith("Peer")
    /\ TrIdle
    /\ SideIdle
    /\ svcState = "AwaitingInit"
    /\ svcErr = Nil

JoinServiceSpec == JoinServiceInit /\ [][JoinServiceNext]_vars

\* The same, the goroutines being scheduled: the tasks and g.Wait go on when
\* they can, the Service observes its context and returns; a Recv is only
\* bound to fail once the stream's context is done. Nothing is assumed of
\* the peer.
JoinServiceFairSpec ==
    /\ JoinServiceSpec
    /\ WF_vars(ReadRecv \/ ReadEOF \/ (streamErr # Nil /\ ReadRecvErr) \/ ReadCtxDone)
    /\ WF_vars(WriteCtxDone)
    /\ WF_vars(SvcCtxDone)
    /\ WF_vars(ServiceFair)
    /\ WF_vars(JoinReturn)

\* The server as RegisterJoinServiceServer registers it, and a stream it
\* accepts. The server value is &server{}: its service field is nil.
RegisteredServer == [ service |-> Nil ]

\* What the business-logic task finds in s.service.
ServiceOf(s) == IF s.service = Nil THEN "missing" ELSE "unspecified"

\* RegisterJoinServiceServer(s).
Register ==
    /\ svcState = "unregistered"
    /\ svcState' = ServiceOf(RegisteredServer)
    /\ svcErr' = svcErr
    /\ SvcFrame

\* The business-logic task calls s.service.Join on the nil interface: the
\* call panics and the process ends.
SvcPanic ==
    /\ svcPc = "run"
    /\ svcState = "missing"
    /\ svcPc' = "panicked"
    /\ UNCHANGED <<streamVars, groupVars, srvPc, srvRet, svcRet, rdPc, rdMsg, rdRet,
                   wrPc, wrRet, requestsClosed, histVars, jsVars, cliVars>>

\* The steps of a registered server and its peer while the process runs.
\* (The steps of a Service need one: with the registered server they are
\* never enabled.)
RegisteredRuns ==
    /\ svcState # "unregistered"
    /\ svcPc # "panicked"
    /\ \/ ServerAccept
       \/ ReadRecv \/ ReadEOF \/ ReadRecvErr \/ ReadCtxDone
       \/ WriteCtxDone
       \/ \E w \in WireRequests : PeerSend(w)
       \/ PeerCloseSend
       \/ PeerCancel("Canceled")

RegisterNext ==
    \/ Register
    \/ RegisteredRuns
    \/ SvcPanic

RegisterInit ==
    /\ InitWith("Peer")
    /\ TrIdle
    /\ SideIdle
    /\ svcState = "unregistered"
    /\ svcErr = Nil

RegisterSpec == RegisterInit /\ [][RegisterNext]_vars

\* The translator's functions, each applied alone to one input.
TrCalls ==
    ({"decodeRequest"} \X TrWireRequests)
        \cup ({"encodeResponse"} \X TrResponses)
        \cup ({"roundTripRequest"} \X TrClientInits)
        \cup ({"roundTripResponse"} \X ({ ServerInit(m) : m \in TrMethods } \cup TrResults))

TranslatorInit ==
    /\ InitWith("none")
    /\ SvcUnspecified
    /\ SideIdle
    /\ trPc = "call"
    /\ \E c \in TrCalls : trOp = c[1] /\ trIn = <<c[2]>>
    /\ trOut = <<>>

TrReturn(out) ==
    /\ trPc' = "done"
    /\ trOut' = <<out>>
    /\ UNCHANGED <<streamVars, groupVars, srvVars, wireIn, wireOut, rdSawEOF, fault,
                   trOp, trIn, sideVars, jsVars, cliVars>>

\* convertRequestToMessage(trIn)
DecodeRequest ==
    /\ trPc = "call" /\ trOp = "decodeRequest"
    /\ TrReturn(convertRequestToMessage(trIn[1]))

\* convertResponseFromMessage(trIn)
EncodeResponse ==
    /\ trPc = "call" /\ trOp = "encodeResponse"
    /\ TrReturn(convertResponseFromMessage(trIn[1]))

\* A Request is encoded, and its wire form decoded.
RoundTripRequest ==
    /\ trPc = "call" /\ trOp = "roundTripRequest"
    /\ TrReturn(convertRequestToMessage(encodeRequest(trIn[1]).msg[1]))

\* A Response is encoded, and its wire form decoded.
RoundTripResponse ==
    /\ trPc = "call" /\ trOp = "roundTripResponse"
    /\ TrReturn(decodeResponse(convertResponseFromMessage(trIn[1]).msg[1]))

TranslatorNext ==
    \/ DecodeRequest
    \/ EncodeResponse
    \/ RoundTripRequest
    \/ RoundTripResponse

TranslatorSpec == TranslatorInit /\ [][TranslatorNext]_vars

\* ------------------------------------------------ two streams, one server
\* server.Join is called once per accepted stream. Its channels and its
\* group context are locals of the call (messages.go:106-109); the server
\* value the calls share holds the Service only (94-98). st[s] is the state
\* of the call serving stream s, each a small server.Join with the channels
\* used as designed: the peer sends ClientInit requests of the stream's own
\* method, may half-close or cancel; the Service of the call waits for
\* requests, offers for each a ServerInit naming the method it was asked
\* for, may close the response channel, and returns.

\* Requests the peer of one stream sends.
MaxStreamReq == 1

\* Mutant of CtxOf: one context, made once, for every call.
CtxOf_Shared(s) == "a"

\* The call whose context the tasks of stream s select on: its own
\* (g, ctx := errgroup.WithContext(stream.Context())).
CtxOf(s) == s

\* Mutant of ChanOf: one pair of channels, made once, for every call.
ChanOf_Shared(s) == "a"

\* The call whose channels the tasks of stream s use: its own (make(chan ...)).
ChanOf(s) == s

CtxErrOf(s) == st[CtxOf(s)].ctxErr

CtxDoneOf(s) == CtxErrOf(s) # Nil

\* The streams once a function passed to g.Go in the call of stream s has
\* returned err, S being the streams with that task's own fields updated:
\* the first non-nil error is recorded and cancels the call's context.
TaskReturnOf(S, s, err) ==
    LET S1 == [S EXCEPT ![s].groupErr =
                   IF err # Nil /\ S[s].groupErr = Nil THEN err ELSE S[s].groupErr]
    IN  IF err # Nil /\ S1[CtxOf(s)].ctxErr = Nil
        THEN [S1 EXCEPT ![CtxOf(s)].ctxErr = "Canceled"]
        ELSE S1

\* The streams once the read task of s, S being the streams with its fields
\* updated, has returned err and its deferred close(requests) has run.
\* A close of a channel that is closed already panics.
ReadReturnOf(S, s, err) ==
    IF S[ChanOf(s)].reqClosed = 0
    THEN TaskReturnOf([S EXCEPT ![s].rdPc = "done", ![s].rdMsg = <<>>,
                                ![ChanOf(s)].reqClosed = @ + 1], s, err)
    ELSE [S EXCEPT ![s].rdPc = "panicked", ![s].rdMsg = <<>>,
                   ![ChanOf(s)].reqClosed = @ + 1]

\* The errors stream.Recv and stream.Send of stream s return, wrapped by the
\* tasks: the status of the stream's context when that is done, a transport
\* failure otherwise.
RecvErrOf(s) ==
    IF st[s].streamErr # Nil
    THEN "reading client request from stream: Canceled"
    ELSE "reading client request from stream: Unavailable"

SendErrOf(s) ==
    IF st[s].streamErr # Nil
    THEN "sending server response to stream: Canceled"
    ELSE "sending server response to stream: Unavailable"

\* What a step of the two streams leaves alone.
IsoFrame ==
    UNCHANGED <<streamVars, groupVars, srvVars, wireIn, wireOut, rdSawEOF, fault,
                trVars, chanVars, toolVars, jsVars, cliVars>>

\* server.Join is called for stream s.
IsoAccept(s) ==
    /\ st[s].pc = "idle"
    /\ st' = [st EXCEPT ![s].pc = "wait", ![s].svcPc = "run",
                        ![s].rdPc = "recv", ![s].wrPc = "select"]
    /\ IsoFrame

\* The peer of stream s sends a ClientInit, while the read task is waiting
\* for one or holds the one before.
IsoPeerSend(s) ==
    /\ st[s].pc = "wait"
    /\ st[s].streamErr = Nil
    /\ ~st[s].c2sClosed
    /\ st[s].rdPc \in {"recv", "send"} /\ st[s].c2s = <<>>
    /\ st[s].nSent < MaxStreamReq
    /\ st' = [st EXCEPT ![s].c2s = Append(@, WireRequest(MethodOf(s))),
                        ![s].nSent = @ + 1]
    /\ IsoFrame

\* The peer of stream s half-closes.
IsoPeerCloseSend(s) ==
    /\ st[s].pc = "wait"
    /\ st[s].streamErr = Nil
    /\ ~st[s].c2sClosed
    /\ st[s].rdPc \in {"recv", "send"}
    /\ st' = [st EXCEPT ![s].c2sClosed = TRUE]
    /\ IsoFrame

\* The peer of stream s cancels the call: stream.Context() is done, and so
\* is the group context derived from it.
IsoPeerCancel(s) ==
    /\ st[s].pc = "wait"
    /\ st[s].streamErr = Nil
    /\ st' = [st EXCEPT ![s].streamErr = "Canceled",
                        ![CtxOf(s)].ctxErr = IF @ = Nil THEN "Canceled" ELSE @]
    /\ IsoFrame

\* Read task of s: stream.Recv returns a request, which is decoded.
IsoReadRecv(s) ==
    /\ st[s].rdPc = "recv"
    /\ st[s].c2s # <<>>
    /\ LET r == convertRequestToMessage(Head(st[s].c2s))
           S == [st EXCEPT ![s].c2s = Tail(@)]
       IN  st' = IF r.err # Nil
                 THEN ReadReturnOf(S, s, r.err)
                 ELSE [S EXCEPT ![s].rdPc = "send", ![s].rdMsg = r.msg]
    /\ IsoFrame

\* Read task of s: stream.Recv returns io.EOF.
IsoReadEOF(s) ==
    /\ st[s].rdPc = "recv"
    /\ st[s].c2s = <<>>
    /\ st[s].c2sClosed
    /\ st' = ReadReturnOf(st, s, Nil)
    /\ IsoFrame

\* Read task of s: stream.Recv fails: the stream's context is done, or the
\* transport failed (which it may at any time).
IsoReadRecvErr(s) ==
    /\ st[s].rdPc = "recv"
    /\ st' = ReadReturnOf(st, s, RecvErrOf(s))
    /\ IsoFrame

\* Read task of s: select, case requests <- msg: the send completes when
\* a receiver waits on the open channel the task sends on, and hands it the
\* request.
IsoReadSend(s) ==
    /\ st[s].rdPc = "send"
    /\ st[ChanOf(s)].reqClosed = 0
    /\ st[ChanOf(s)].svcPc = "recvRequest"
    /\ st' = [st EXCEPT ![s].rdPc = "recv", ![s].rdMsg = <<>>,
                        ![ChanOf(s)].svcPc = "run",
                        ![ChanOf(s)].svcGot = Append(@, st[s].rdMsg[1])]
    /\ IsoFrame

\* Read task of s: select, case <-ctx.Done().
IsoReadCtxDone(s) ==
    /\ st[s].rdPc = "send"
    /\ CtxDoneOf(s)
    /\ st' = ReadReturnOf(st, s, CtxErrOf(s))
    /\ IsoFrame

\* Write task of s: select, case <-ctx.Done().
IsoWriteCtxDone(s) ==
    /\ st[s].wrPc = "select"
    /\ CtxDoneOf(s)
    /\ st' = TaskReturnOf([st EXCEPT ![s].wrPc = "done"], s, CtxErrOf(s))
    /\ IsoFrame

\* Write task of s: select, case resp, ok := <-responses with ok false.
IsoWriteClosed(s) ==
    /\ st[s].wrPc = "select"
    /\ st[ChanOf(s)].respClosed
    /\ st' = TaskReturnOf([st EXCEPT ![s].wrPc = "done"], s, Nil)
    /\ IsoFrame

\* The answer the Service of call c is offering: to the request it has
\* received and not yet answered.
AnswerOf(c) == ServerInit(st[c].svcGot[st[c].nAnswered + 1].JoinMethod)

\* Write task of s: select, case resp, ok := <-responses with ok true: the
\* receive completes when a sender waits on the channel the task receives
\* from, and takes its value; the value is encoded, and the task moves to
\* stream.Send or returns the encode error.
IsoWriteRecv(s) ==
    /\ st[s].wrPc = "select"
    /\ LET c == ChanOf(s) IN
         /\ ~st[c].respClosed
         /\ st[c].svcPc = "sendResponse"
         /\ LET r == convertResponseFromMessage(AnswerOf(c))
                S == [st EXCEPT ![c].svcPc = "run", ![c].nAnswered = @ + 1]
            IN  st' = IF r.err # Nil
                      THEN TaskReturnOf([S EXCEPT ![s].wrPc = "done"], s, r.err)
                      ELSE [S EXCEPT ![s].wrPc = "send", ![s].wrMsg = r.msg]
    /\ IsoFrame

\* Write task of s: stream.Send returns nil, the message is on stream s.
IsoWriteSend(s) ==
    /\ st[s].wrPc = "send"
    /\ st[s].streamErr = Nil
    /\ st' = [st EXCEPT ![s].wrPc = "select", ![s].wrMsg = <<>>,
                        ![s].wireOut = @ \o st[s].wrMsg]
    /\ IsoFrame

\* Write task of s: stream.Send fails: the stream's context is done, or the
\* transport failed.
IsoWriteSendErr(s) ==
    /\ st[s].wrPc = "send"
    /\ st' = TaskReturnOf([st EXCEPT ![s].wrPc = "done", ![s].wrMsg = <<>>], s,
                          SendErrOf(s))
    /\ IsoFrame

\* The Service of s starts a receive from its request channel, and blocks
\* in it.
IsoSvcRecvRequest(s) ==
    /\ st[s].svcPc = "run"
    /\ st' = [st EXCEPT ![s].svcPc = "recvRequest"]
    /\ IsoFrame

\* The Service of s starts a send of its answer on its response channel, and
\* blocks in it.
IsoSvcSendResponse(s) ==
    /\ st[s].svcPc = "run"
    /\ ~st[s].respClosed
    /\ st[s].nAnswered < Len(st[s].svcGot)
    /\ st' = [st EXCEPT ![s].svcPc = "sendResponse"]
    /\ IsoFrame

\* The blocked Service of s goes on without the other end: its context is
\* done, or its receive finds the request channel closed.
IsoSvcUnblock(s) ==
    /\ st[s].svcPc \in {"recvRequest", "sendResponse"}
    /\ CtxDoneOf(s) \/ (st[s].svcPc = "recvRequest" /\ st[s].reqClosed >= 1)
    /\ st' = [st EXCEPT ![s].svcPc = "run"]
    /\ IsoFrame

\* The Service of s closes its response channel.
IsoSvcCloseResponses(s) ==
    /\ st[s].svcPc = "run"
    /\ ~st[s].respClosed
    /\ st' = [st EXCEPT ![s].respClosed = TRUE]
    /\ IsoFrame

\* s.service.Join of s returns err: nil, an error of its own, or the error
\* of the context it was given.
IsoSvcReturn(s, err) ==
    /\ st[s].svcPc = "run"
    /\ st' = TaskReturnOf([st EXCEPT ![s].svcPc = "done"], s, err)
    /\ IsoFrame

\* g.Wait of s returns once its three tasks have; Join returns its error and
\* the call's context is cancelled.
IsoJoinReturn(s) ==
    /\ st[s].pc = "wait"
    /\ st[s].svcPc = "done" /\ st[s].rdPc = "done" /\ st[s].wrPc = "done"
    /\ st' = [st EXCEPT ![s].pc = "returned", ![s].ret = st[s].groupErr,
                        ![CtxOf(s)].ctxErr = IF @ = Nil THEN "Canceled" ELSE @]
    /\ IsoFrame

\* The Service of the design, as DesignService.
IsoServiceTask(s) ==
    \/ IsoSvcRecvRequest(s)
    \/ IsoSvcSendResponse(s)
    \/ IsoSvcUnblock(s)
    \/ IsoSvcCloseResponses(s)
    \/ \E err \in {Nil, "service error"} \cup {CtxErrOf(s)} : IsoSvcReturn(s, err)

IsoNext ==
    \E s \in StreamIds :
        \/ IsoAccept(s)
        \/ IsoPeerSend(s)
        \/ IsoPeerCloseSend(s)
        \/ IsoPeerCancel(s)
        \/ IsoReadRecv(s)
        \/ IsoReadEOF(s)
        \/ IsoReadRecvErr(s)
        \/ IsoReadSend(s)
        \/ IsoReadCtxDone(s)
        \/ IsoWriteCtxDone(s)
        \/ IsoWriteClosed(s)
        \/ IsoWriteRecv(s)
        \/ IsoWriteSend(s)
        \/ IsoWriteSendErr(s)
        \/ IsoServiceTask(s)
        \/ IsoJoinReturn(s)

IsoInit ==
    /\ InitWith("none")
    /\ TrIdle
    /\ SvcUnspecified
    /\ SideIdle

IsoSpec == IsoInit /\ [][IsoNext]_vars

\* ---------------------------------------------------------- benchfind Find
\* Strings are sequences of characters, so that prefixes and suffixes are
\* computed as strings.HasPrefix and strings.TrimSuffix compute them.
HasPrefix(s, prefix) ==
    Len(prefix) <= Len(s) /\ SubSeq(s, 1, Len(prefix)) = prefix

HasSuffix(s, suffix) ==
    Len(suffix) <= Len(s) /\ SubSeq(s, Len(s) - Len(suffix) + 1, Len(s)) = suffix

TrimSuffix(s, suffix) ==
    IF HasSuffix(s, suffix) THEN SubSeq(s, 1, Len(s) - Len(suffix)) ELSE s

DotTest == <<".", "t", "e", "s", "t">>
UnderTest == <<"_", "t", "e", "s", "t">>
BenchmarkPrefix == <<"B", "e", "n", "c", "h", "m", "a", "r", "k">>

\* The path Find records for a package: ".test" is trimmed, then "_test".
TrimmedPath(pkgPath) == TrimSuffix(TrimSuffix(pkgPath, DotTest), UnderTest)

\* An ast.Field of a parameter list: how many names it declares and its type
\* expression (star: the type is a StarExpr; inner: what the StarExpr points
\* to, or the type itself; sel: the selector's Sel.Name).
Field(names, star, inner, sel) ==
    [ names |-> names, star |-> star, inner |-> inner, sel |-> sel ]

\* A declaration of a file: a FuncDecl (with or without receiver) or another.
FuncDecl(recv, name, params) ==
    [ kind |-> "func", recv |-> recv, name |-> name, params |-> params ]

GenDecl == [ kind |-> "gen", recv |-> FALSE, name |-> <<>>, params |-> <<>> ]

TestingB == Field(1, TRUE, "sel", "B")

\* func BenchmarkX(b *testing.B)
D_Bench == FuncDecl(FALSE, BenchmarkPrefix \o <<"X">>, <<TestingB>>)
\* func Benchmark(*testing.B)
D_BenchBare == FuncDecl(FALSE, BenchmarkPrefix, <<Field(0, TRUE, "sel", "B")>>)
\* func BenchmarkX(a, b *testing.B)
D_TwoNames == FuncDecl(FALSE, BenchmarkPrefix \o <<"X">>, <<Field(2, TRUE, "sel", "B")>>)
\* func (s *Suite) BenchmarkX(b *testing.B)
D_Method == FuncDecl(TRUE, BenchmarkPrefix \o <<"X">>, <<TestingB>>)
\* func TestX(t *testing.T)
D_Test == FuncDecl(FALSE, <<"T", "e", "s", "t", "X">>, <<Field(1, TRUE, "sel", "T")>>)
\* func BenchmarkX(b testing.B)
D_NoStar == FuncDecl(FALSE, BenchmarkPrefix \o <<"X">>, <<Field(1, FALSE, "sel", "B")>>)
\* func BenchmarkX(b *testing.B, n int)
D_TwoFields ==
    FuncDecl(FALSE, BenchmarkPrefix \o <<"X">>, <<TestingB, Field(1, FALSE, "ident", "")>>)
\* func Bench(b *testing.B)
D_Short == FuncDecl(FALSE, <<"B", "e", "n", "c", "h">>, <<TestingB>>)

\* The Syntax of a package: its files, each a sequence of declarations.
Syntaxes ==
    { <<>>, <<<<D_Bench>>>>, <<<<D_TwoNames>>>>, <<<<D_Method>>>>, <<<<D_Test>>>>,
      <<<<D_NoStar>>>>, <<<<D_TwoFields>>>>, <<<<D_Short>>>>,
      << <<GenDecl, D_Test>>, <<D_Method, D_BenchBare>> >> }

\* Package paths: a package, its test binary, its external test package, and
\* a package whose path begins with the first one's.
PkgPaths ==
    { <<"a">>, <<"a">> \o DotTest, <<"a">> \o UnderTest, <<"a", "b">> }

Packages == [ PkgPath : PkgPaths, Syntax : Syntaxes ]

ExcludeLists == { <<>>, <<<<"a", "b">>>>, <<<<"a", "_">>>>, <<<<"x">>, <<"a">>>> }

MaxPkgs == 2

PkgLists == UNION { [1..n -> Packages] : n \in 0..MaxPkgs }

isBenchmark(fn) ==
    /\ HasPrefix(fn.name, BenchmarkPrefix)
    /\ Len(fn.params) = 1
    /\ fn.params[1].star
    /\ fn.params[1].inner = "sel"
    /\ fn.params[1].sel = "B"

fileHasBenchmark(file) ==
    \E i \in 1..Len(file) :
        /\ file[i].kind = "func"
        /\ ~file[i].recv
        /\ isBenchmark(file[i])

hasBenchmark(pkg) ==
    \E i \in 1..Len(pkg.Syntax) : fileHasBenchmark(pkg.Syntax[i])

matchesAnyPrefix(path, prefixes) ==
    \E i \in 1..Len(prefixes) : HasPrefix(path, prefixes[i])

BfFrame ==
    UNCHANGED <<streamVars, groupVars, srvVars, wireIn, wireOut, rdSawEOF, fault,
                trVars, chanVars, isoVars, ksVars, jsVars, cliVars>>

\* packages.Load returns the packages of the patterns.
FindLoad ==
    /\ bfPc = "load"
    /\ \E pkgs \in PkgLists : bfPkgs' = pkgs
    /\ bfPc' = "visit"
    /\ UNCHANGED <<bfExcludes, bfNext, bfSeen, bfResult, bfErr>>
    /\ BfFrame

\* packages.Load fails, or some package was loaded with errors.
FindLoadErr ==
    /\ bfPc = "load"
    /\ \E err \in {"load error", "BadParameter: failed to load some packages"} :
           bfErr' = err
    /\ bfPc' = "returned"
    /\ UNCHANGED <<bfExcludes, bfPkgs, bfNext, bfSeen, bfResult>>
    /\ BfFrame

\* packages.Visit calls the function on the next package.
FindVisit ==
    /\ bfPc = "visit"
    /\ bfNext <= Len(bfPkgs)
    /\ LET p == bfPkgs[bfNext]
           path == TrimmedPath(p.PkgPath)
           add == /\ ~matchesAnyPrefix(path, bfExcludes)
                  /\ hasBenchmark(p)
                  /\ path \notin bfSeen
       IN  /\ bfSeen' = IF add THEN bfSeen \cup {path} ELSE bfSeen
           /\ bfResult' = IF add THEN Append(bfResult, path) ELSE bfResult
    /\ bfNext' = bfNext + 1
    /\ UNCHANGED <<bfPc, bfExcludes, bfPkgs, bfErr>>
    /\ BfFrame

\* Every package was visited: Find returns result.
FindReturn ==
    /\ bfPc = "visit"
    /\ bfNext > Len(bfPkgs)
    /\ bfPc' = "returned"
    /\ UNCHANGED <<bfExcludes, bfPkgs, bfNext, bfSeen, bfResult, bfErr>>
    /\ BfFrame

FindNext == FindLoad \/ FindLoadErr \/ FindVisit \/ FindReturn

FindInit ==
    /\ InitWith("none")
    /\ TrIdle
    /\ SvcUnspecified
    /\ ChanIdle
    /\ IsoIdle
    /\ KsIdle
    /\ bfPc = "load"
    /\ bfExcludes \in ExcludeLists
    /\ bfPkgs = <<>>
    /\ bfNext = 1
    /\ bfSeen = {}
    /\ bfResult = <<>>
    /\ bfErr = Nil

FindSpec == FindInit /\ [][FindNext]_vars

\* ------------------------------------------------- tctl kube_server handlers
\* The servers a cluster may hold. A server's key is its host ID and name:
\* two hosts serve k1, host h1 serves k1 and k2, and a discovered cluster
\* carries the name it was discovered under next to a server named so.
S_k1h1 == KubeServer("k1", "h1", "n1", "")
S_k1h2 == KubeServer("k1", "h2", "n2", "")
S_k2h1 == KubeServer("k2", "h1", "n1", "")
S_k3aws == KubeServer("k3-aws", "h2", "n2", "k3")
S_k3h3 == KubeServer("k3", "h3", "n3", "")

AllServers == <<S_k1h1, S_k1h2, S_k2h1, S_k3aws, S_k3h3>>

Pick(keep) == SelectSeq(AllServers, LAMBDA s : s \in keep)

Clusters == { Pick(keep) : keep \in SUBSET { AllServers[i] : i \in 1..Len(AllServers) } }

RefNames == { "k1", "k2", "k3", "n1", "n2", "zz" }

RawResources ==
    { RawGarbage,
      RawOf(KubeServer("k1", "h1", "n1-new", "")),
      RawOf(KubeServer("n1", "h1", "n1", "")),
      RawOf(KubeServer("k3", "h2", "n2", "")),
      RawOf(KubeServer("zz", "h1", "n1", "")) }

filterByName(servers, name) ==
    SelectSeq(servers, LAMBDA s : s.name = name \/ s.hostname = name)

filterByDiscoveredName(servers, name) ==
    SelectSeq(servers, LAMBDA s : s.discovered # "" /\ s.discovered = name)

\* Servers named so, or with that hostname; when there is none, the servers
\* discovered under that name.
FilterByNameOrDiscoveredName(servers, name) ==
    IF filterByName(servers, name) # <<>>
    THEN filterByName(servers, name)
    ELSE filterByDiscoveredName(servers, name)

\* The one name the servers share, or the error of having none or several.
GetOneResourceNameToDelete(servers) ==
    LET names == { servers[i].name : i \in 1..Len(servers) }
    IN  IF Cardinality(names) = 1 THEN [ name |-> servers[1].name, err |-> Nil ]
        ELSE IF names = {} THEN [ name |-> "", err |-> "NotFound" ]
        ELSE [ name |-> "", err |-> "BadParameter: ambiguous" ]

\* client.UpsertKubernetesServer: the server of that host ID and name is
\* replaced, or the server is added.
UpsertKubernetesServer(cluster, server) ==
    IF \E i \in 1..Len(cluster) :
           cluster[i].hostID = server.hostID /\ cluster[i].name = server.name
    THEN [ i \in 1..Len(cluster) |->
             IF cluster[i].hostID = server.hostID /\ cluster[i].name = server.name
             THEN server ELSE cluster[i] ]
    ELSE Append(cluster, server)

\* client.DeleteKubernetesServer: the server of that host ID and name goes.
DeleteKubernetesServer(cluster, hostID, name) ==
    SelectSeq(cluster, LAMBDA s : ~(s.hostID = hostID /\ s.name = name))

KsFrame ==
    UNCHANGED <<streamVars, groupVars, srvVars, wireIn, wireOut, rdSawEOF, fault,
                trVars, chanVars, isoVars, bfVars, jsVars, cliVars>>

KsReturn(err) ==
    /\ ksPc' = "returned"
    /\ ksRet' = err

\* tctl create: createKubeServer is called with a raw resource.
CreateCall(raw) ==
    /\ ksPc = "idle"
    /\ ksOp' = "create"
    /\ ksRaw' = raw
    /\ ksPc' = "unmarshal"
    /\ UNCHANGED <<ksRef, ksCluster, ksCluster0, ksServers, ksName, ksIdx, ksCalls,
                   ksRet>>
    /\ KsFrame

\* services.UnmarshalKubeServer, in createKubeServer: the upsert follows at
\* once, the cluster's servers are not looked at.
CreateUnmarshal ==
    /\ ksPc = "unmarshal"
    /\ ksOp = "create"
    /\ IF ksRaw.valid
       THEN ksPc' = "upsert" /\ ksRet' = ksRet
       ELSE KsReturn("unmarshal error")
    /\ UNCHANGED <<ksOp, ksRaw, ksRef, ksCluster, ksCluster0, ksServers, ksName, ksIdx,
                   ksCalls>>
    /\ KsFrame

\* client.UpsertKubernetesServer succeeds and createKubeServer returns nil.
CreateUpsert ==
    /\ ksPc = "upsert"
    /\ ksOp = "create"
    /\ ksCluster' = UpsertKubernetesServer(ksCluster, ksRaw.server)
    /\ ksCalls' = Append(ksCalls, <<"upsert", ksRaw.server.hostID, ksRaw.server.name>>)
    /\ KsReturn(Nil)
    /\ UNCHANGED <<ksOp, ksRaw, ksRef, ksCluster0, ksServers, ksName, ksIdx>>
    /\ KsFrame

\* client.UpsertKubernetesServer fails in createKubeServer.
CreateUpsertErr ==
    /\ ksPc = "upsert"
    /\ ksOp = "create"
    /\ ksCalls' = Append(ksCalls, <<"upsert", ksRaw.server.hostID, ksRaw.server.name>>)
    /\ KsReturn("upsert error")
    /\ UNCHANGED <<ksOp, ksRaw, ksRef, ksCluster, ksCluster0, ksServers, ksName, ksIdx>>
    /\ KsFrame

\* tctl update: updateKubeServer is called with a raw resource.
UpdateCall(raw) ==
    /\ ksPc = "idle"
    /\ ksOp' = "update"
    /\ ksRaw' = raw
    /\ ksPc' = "unmarshal"
    /\ UNCHANGED <<ksRef, ksCluster, ksCluster0, ksServers, ksName, ksIdx, ksCalls,
                   ksRet>>
    /\ KsFrame

\* services.UnmarshalKubeServer, in updateKubeServer.
UpdateUnmarshal ==
    /\ ksPc = "unmarshal"
    /\ ksOp = "update"
    /\ IF ksRaw.valid
       THEN ksPc' = "get" /\ ksRet' = ksRet
       ELSE KsReturn("unmarshal error")
    /\ UNCHANGED <<ksOp, ksRaw, ksRef, ksCluster, ksCluster0, ksServers, ksName, ksIdx,
                   ksCalls>>
    /\ KsFrame

\* tctl rm: deleteKubeServer is called with a reference.
DeleteCall(ref) ==
    /\ ksPc = "idle"
    /\ ksOp' = "delete"
    /\ ksRef' = ref
    /\ ksPc' = "get"
    /\ UNCHANGED <<ksRaw, ksCluster, ksCluster0, ksServers, ksName, ksIdx, ksCalls,
                   ksRet>>
    /\ KsFrame

\* client.GetKubernetesServers returns the servers.
KsGet ==
    /\ ksPc = "get"
    /\ ksServers' = ksCluster
    /\ ksPc' = "filter"
    /\ UNCHANGED <<ksOp, ksRaw, ksRef, ksCluster, ksCluster0, ksName, ksIdx, ksCalls,
                   ksRet>>
    /\ KsFrame

\* client.GetKubernetesServers fails.
KsGetErr ==
    /\ ksPc = "get"
    /\ KsReturn("get error")
    /\ UNCHANGED <<ksOp, ksRaw, ksRef, ksCluster, ksCluster0, ksServers, ksName, ksIdx,
                   ksCalls>>
    /\ KsFrame

\* Mutant of UpdateFilter: the upsert follows whether or not a server matched.
UpdateFilter_NoCheck ==
    /\ ksPc = "filter"
    /\ ksOp = "update"
    /\ ksServers' = FilterByNameOrDiscoveredName(ksServers, ksRaw.server.name)
    /\ ksPc' = "upsert"
    /\ UNCHANGED <<ksOp, ksRaw, ksRef, ksCluster, ksCluster0, ksName, ksIdx, ksCalls,
                   ksRet>>
    /\ KsFrame

\* updateKubeServer keeps the servers that match the resource's name and
\* returns NotFound when there is none.
UpdateFilter ==
    /\ ksPc = "filter"
    /\ ksOp = "update"
    /\ ksServers' = FilterByNameOrDiscoveredName(ksServers, ksRaw.server.name)
    /\ IF Len(ksServers') = 0
       THEN KsReturn("NotFound")
       ELSE ksPc' = "upsert" /\ ksRet' = ksRet
    /\ UNCHANGED <<ksOp, ksRaw, ksRef, ksCluster, ksCluster0, ksName, ksIdx, ksCalls>>
    /\ KsFrame

\* client.UpsertKubernetesServer succeeds and updateKubeServer returns nil.
UpdateUpsert ==
    /\ ksPc = "upsert"
    /\ ksOp = "update"
    /\ ksCluster' = UpsertKubernetesServer(ksCluster, ksRaw.server)
    /\ ksCalls' = Append(ksCalls, <<"upsert", ksRaw.server.hostID, ksRaw.server.name>>)
    /\ KsReturn(Nil)
    /\ UNCHANGED <<ksOp, ksRaw, ksRef, ksCluster0, ksServers, ksName, ksIdx>>
    /\ KsFrame

\* client.UpsertKubernetesServer fails in updateKubeServer.
UpdateUpsertErr ==
    /\ ksPc = "upsert"
    /\ ksOp = "update"
    /\ ksCalls' = Append(ksCalls, <<"upsert", ksRaw.server.hostID, ksRaw.server.name>>)
    /\ KsReturn("upsert error")
    /\ UNCHANGED <<ksOp, ksRaw, ksRef, ksCluster, ksCluster0, ksServers, ksName, ksIdx>>
    /\ KsFrame

\* deleteKubeServer keeps the servers that match the reference and resolves
\* the one name to delete.
DeleteFilter ==
    /\ ksPc = "filter"
    /\ ksOp = "delete"
    /\ ksServers' = FilterByNameOrDiscoveredName(ksServers, ksRef)
    /\ LET one == GetOneResourceNameToDelete(ksServers')
       IN  IF one.err # Nil
           THEN KsReturn(one.err) /\ ksName' = ksName
           ELSE ksPc' = "loop" /\ ksName' = one.name /\ ksRet' = ksRet
    /\ ksIdx' = 1
    /\ UNCHANGED <<ksOp, ksRaw, ksRef, ksCluster, ksCluster0, ksCalls>>
    /\ KsFrame

\* One turn of the loop: client.DeleteKubernetesServer succeeds.
DeleteOne ==
    /\ ksPc = "loop"
    /\ ksIdx <= Len(ksServers)
    /\ ksCluster' = DeleteKubernetesServer(ksCluster, ksServers[ksIdx].hostID, ksName)
    /\ ksCalls' = Append(ksCalls, <<"delete", ksServers[ksIdx].hostID, ksName>>)
    /\ ksIdx' = ksIdx + 1
    /\ UNCHANGED <<ksPc, ksOp, ksRaw, ksRef, ksCluster0, ksServers, ksName, ksRet>>
    /\ KsFrame

\* One turn of the loop: client.DeleteKubernetesServer fails.
DeleteOneErr ==
    /\ ksPc = "loop"
    /\ ksIdx <= Len(ksServers)
    /\ ksCalls' = Append(ksCalls, <<"delete", ksServers[ksIdx].hostID, ksName>>)
    /\ KsReturn("delete error")
    /\ UNCHANGED <<ksOp, ksRaw, ksRef, ksCluster, ksCluster0, ksServers, ksName, ksIdx>>
    /\ KsFrame

\* The loop is over: deleteKubeServer returns nil.
DeleteReturn ==
    /\ ksPc = "loop"
    /\ ksIdx > Len(ksServers)
    /\ KsReturn(Nil)
    /\ UNCHANGED <<ksOp, ksRaw, ksRef, ksCluster, ksCluster0, ksServers, ksName, ksIdx,
                   ksCalls>>
    /\ KsFrame

createKubeServer ==
    \/ \E raw \in RawResources : CreateCall(raw)
    \/ CreateUnmarshal
    \/ CreateUpsert
    \/ CreateUpsertErr

updateKubeServer ==
    \/ \E raw \in RawResources : UpdateCall(raw)
    \/ UpdateUnmarshal
    \/ UpdateFilter
    \/ UpdateUpsert
    \/ UpdateUpsertErr

deleteKubeServer ==
    \/ \E ref \in RefNames : DeleteCall(ref)
    \/ DeleteFilter
    \/ DeleteOne
    \/ DeleteOneErr
    \/ DeleteReturn

KubeNext ==
    \/ createKubeServer
    \/ updateKubeServer
    \/ deleteKubeServer
    \/ KsGet
    \/ KsGetErr

KubeInit ==
    /\ InitWith("none")
    /\ TrIdle
    /\ SvcUnspecified
    /\ ChanIdle
    /\ IsoIdle
    /\ BfIdle
    /\ ksPc = "idle"
    /\ ksOp = "none"
    /\ ksRaw = RawGarbage
    /\ ksRef = ""
    /\ ksCluster \in Clusters
    /\ ksCluster0 = ksCluster
    /\ ksServers = <<>>
    /\ ksName = ""
    /\ ksIdx = 1
    /\ ksCalls = <<>>
    /\ ksRet = Nil

KubeSpec == KubeInit /\ [][KubeNext]_vars

\* ------------------------------------------------------------- properties
\* C1: once a task of server.Join has failed, the other tasks exit and Join
\* eventually returns. Fails: a read task blocked in stream.Recv does not
\* observe the group's cancellation.
C1_FailureUnblocksAll ==
    (srvPc = "wait" /\ firstFail # <<>>) ~> (srvPc = "returned")

\* C2: when the client's send task exits without error because the caller
\* closed the requests channel, it has half-closed the stream. Fails: the
\* task returns nil without calling CloseSend.
C2_SendTaskHalfCloses ==
    (sendPc = "done" /\ sendRet = Nil) => c2sClosed

\* C3: the client sent ClientInit and closed its requests channel, and the
\* Service returned nil: once both Joins have returned, with the client's
\* reporting no error, the server's reports none either. Fails: without a
\* half-close the server's read task never sees io.EOF, and the write task,
\* which is never given a response or a closed channel, returns only the
\* context's error.
C3_SuccessfulExchange ==
    ( /\ remote = "Client"
      /\ cliEnq = <<ClientInit("token")>> /\ Len(cliSent) = 1
      /\ cliReqClosed /\ sendPc = "done" /\ sendRet = Nil
      /\ svcPc = "done" /\ svcRet = Nil
      /\ cliPc = "returned" /\ cliRet = Nil
      /\ srvPc = "returned"
      /\ ~fault )
    => srvRet = Nil

\* C4: server.Join returns the first non-nil error a task returned; errors
\* the siblings return afterwards never replace it.
C4_FirstErrorWins ==
    /\ firstFail # <<>> => groupErr = firstFail[2]
    /\ firstFail = <<>> => groupErr = Nil
    /\ srvPc = "returned" => srvRet = groupErr

C4_Witness ==
    /\ srvPc = "returned"
    /\ firstFail = <<"service", "service error">>
    /\ rdRet \notin {Nil, "service error"}
    /\ wrRet \notin {Nil, "service error"}
    /\ srvRet = "service error"

\* C5: with the channels used as designed, once the read task has seen
\* io.EOF it has returned nil, it is not the task that failed the group, and
\* the group's context is done only for another reason (another task's
\* error, the stream's context, g.Wait); the step that saw io.EOF leaves the
\* context, the Service and the write task as they were.
C5_EOFIsClean ==
    /\ [](rdSawEOF =>
             /\ rdPc = "done" /\ rdRet = Nil
             /\ firstFail # <<>> => firstFail[1] # "read"
             /\ ctxDone => (firstFail # <<>> \/ streamErr # Nil \/ srvPc = "returned"))
    /\ [][ (~rdSawEOF /\ rdSawEOF')
            => UNCHANGED <<groupVars, svcPc, svcRet, wrPc, wrRet, wrMsg>> ]_vars

C5_Witness ==
    /\ rdSawEOF
    /\ svcGot = <<ClientInit("token")>>
    /\ Len(wireOut) = 2
    /\ srvPc = "returned"
    /\ srvRet = Nil

\* C6: with the channels used as designed, the request channel is closed
\* exactly when the read task has returned, and closed once, whatever the
\* exit path (io.EOF, Recv error, decode error, ctx.Done()).
C6_RequestsClosedOnExit ==
    requestsClosed = IF rdPc = "done" THEN 1 ELSE 0

C6_Witness ==
    /\ rdPc = "done"
    /\ rdRet = "Canceled"
    /\ svcGot # <<>>
    /\ Len(wireIn) = 2
    /\ requestsClosed = 1

\* C7: with the channels used as designed, the write task has returned nil
\* if and only if it received from the response channel and found it
\* closed, which the business logic did; every other exit returns an error.
C7_WriteCleanIffClosed ==
    /\ wrPc = "done" => (wrRet = Nil <=> wrSawClosed)
    /\ wrSawClosed => (responsesClosed /\ wrPc = "done")

C7_Witness ==
    /\ wrPc = "done"
    /\ wrSawClosed
    /\ wrRet = Nil
    /\ ~ctxDone
    /\ Len(wireOut) = MaxResp

\* C8: with the channels used as designed, the requests the business logic
\* received are, in order, the decoded form of a prefix of the wire requests
\* received, and the wire responses written are, in order, the encoded form
\* of a prefix of the responses the business logic sent.
C8_OrderPerDirection ==
    /\ Len(svcGot) <= Len(wireIn)
    /\ \A i \in 1..Len(svcGot) : convertRequestToMessage(wireIn[i]).msg = <<svcGot[i]>>
    /\ Len(wireOut) <= Len(svcSent)
    /\ \A i \in 1..Len(wireOut) : convertResponseFromMessage(svcSent[i]).msg = <<wireOut[i]>>

C8_Witness ==
    /\ Len(svcGot) = 2 /\ svcGot[1] # svcGot[2]
    /\ Len(wireOut) = 2 /\ wireOut[1] # wireOut[2]

\* C9: if Client.Join returned nil, every request taken from the requests
\* channel before its closure is on the wire, as the encoding of that
\* request, once and in order (the send task having exited cleanly on the
\* closure). Fails: stream.Send() is called without the request.
C9_RequestsTransmitted ==
    ( /\ cliPc = "returned" /\ cliRet = Nil
      /\ cliReqClosed /\ sendPc = "done" /\ sendRet = Nil
      /\ ~fault ) =>
        /\ Len(cliSent) = Len(cliEnq)
        /\ \A i \in 1..Len(cliSent) : convertRequestToMessage(cliSent[i]).msg = <<cliEnq[i]>>

\* C11: once the group's context is done, the write task does not take a
\* Result from the response channel and write it to the stream. Fails, with
\* the channels used as designed: the select of the write task chooses at
\* random between ctx.Done() and a response the business logic is offering,
\* so a Result taken after a sibling's failure has cancelled the group is
\* sent on the stream, which is still live (no transport failure).
C11_NoResultAfterCancel ==
    [][ (wrPc = "send" /\ wrTookDone /\ ~fault /\ wrMsg[1].payload = "Result")
            => wireOut' = wireOut ]_vars

\* The errors that report a cancellation: ctx.Err(), and the wrapped error
\* of a Recv or Send on a stream whose context is done.
CancelErrs ==
    { "Canceled",
      "reading client request from stream: Canceled",
      "sending server response to stream: Canceled" }

\* The errors of the translator.
TranslatorErrs ==
    { convertRequestToMessage(WireNoPayload).err,
      convertResponseFromMessage(NilResponse).err }

\* C12: with the channels used as designed, after the stream's context is
\* cancelled while server.Join waits, the read task, the write task and Join
\* eventually return; a read task in flight in stream.Recv on a silent
\* client and a write task in flight in stream.Send return a cancellation
\* error; and when a task was so unblocked, Join returns an error: a
\* cancellation error, unless an error of the Service's own or a translator
\* error came first (the first error wins, C4; no transport failure).
C12_CancelUnblocks ==
    /\ (streamErr # Nil /\ srvPc = "wait")
          ~> (rdPc = "done" /\ wrPc = "done" /\ srvPc = "returned")
    /\ [][ (streamErr # Nil /\ rdPc = "recv" /\ c2s = <<>> /\ ~c2sClosed
               /\ rdPc' = "done")
            => rdRet' \in CancelErrs ]_vars
    /\ [][ (streamErr # Nil /\ wrPc = "send" /\ wrPc' # "send")
            => (wrPc' = "done" /\ wrRet' \in CancelErrs /\ wireOut' = wireOut) ]_vars
    /\ [][ (streamErr # Nil /\ ~fault /\ srvPc = "wait" /\ srvPc' = "returned"
               /\ (rdRet \in CancelErrs \/ wrRet \in CancelErrs))
            => srvRet' \in CancelErrs \cup TranslatorErrs \cup {"service error"} ]_vars

C12_Witness ==
    /\ srvPc = "returned"
    /\ streamErr = "Canceled"
    /\ ~fault
    /\ rdRet = "reading client request from stream: Canceled"
    /\ wrRet = "sending server response to stream: Canceled"
    /\ svcGot # <<>>
    /\ srvRet \in CancelErrs

\* C13: the caller cancels its context while Client.Join runs, after the
\* ClientInit was sent and before any Result was delivered: when Join
\* returns, the send task has returned, Join's result is a cancellation
\* error and no Result has been delivered. Fails: Join does not wait for
\* its tasks and does not return the context's error. (While Join runs its
\* context is done only by the caller's cancellation.)
C13_ClientCancel ==
    [][ ( /\ cliPc = "go" /\ cliCtxErr # Nil
          /\ cliEnq # <<>> /\ cliEnq[1].kind = "ClientInit" /\ cliSent # <<>>
          /\ cliPc' = "returned" )
        => ( /\ sendPc' = "done"
             /\ cliRet' \in CancelErrs
             /\ \A i \in 1..Len(cliDelivered') : cliDelivered'[i].kind # "Result" ) ]_vars

\* C14: whenever Client.Join has returned, on either return path and with
\* or without an error, the context the stream was opened under is done.
C14_StreamReleased ==
    cliPc = "returned" => cliCtxErr # Nil

C14_Witness ==
    /\ cliPc = "returned"
    /\ cliRet = Nil
    /\ cliSent # <<>>
    /\ sendPc = "select"
    /\ cliCtxErr = "Canceled"

\* C15: with the channels used as designed, once the read task has received
\* a wire request that does not decode, it has returned the decode error
\* having received nothing after it and holding nothing to forward, the
\* business logic has received only requests that came before it, the
\* group has failed, and server.Join, once returned, has returned an error.
C15_UnrecognizedAborts ==
    \A i \in 1..Len(wireIn) :
        convertRequestToMessage(wireIn[i]).err # Nil =>
            /\ i = Len(wireIn)
            /\ rdPc = "done" /\ rdMsg = <<>>
            /\ rdRet = convertRequestToMessage(wireIn[i]).err
            /\ Len(svcGot) < i
            /\ groupErr # Nil /\ ctxDone
            /\ srvPc = "returned" => srvRet # Nil

C15_Witness ==
    /\ wireIn = <<WireRequest("token"), WireNoPayload>>
    /\ svcGot = <<ClientInit("token")>>
    /\ srvPc = "returned"
    /\ srvRet = convertRequestToMessage(WireNoPayload).err

\* C16: convertRequestToMessage maps a wire request whose payload is
\* ClientInit to exactly one ClientInit message carrying its fields, with no
\* error, and a wire request with another payload or none to no message and
\* the bad-parameter error.
C16_DecodeRequest ==
    (trPc = "done" /\ trOp = "decodeRequest") =>
        LET w == trIn[1]
            r == trOut[1]
        IN  IF w.payload = "ClientInit"
            THEN /\ r.err = Nil
                 /\ Len(r.msg) = 1
                 /\ r.msg[1].kind = "ClientInit"
                 /\ r.msg[1].JoinMethod = w.ClientInit[1].JoinMethod
                 /\ r.msg[1].TokenName = w.ClientInit[1].TokenName
                 /\ r.msg[1].NodeName = w.ClientInit[1].NodeName
                 /\ r.msg[1].Role = w.ClientInit[1].Role
                 /\ r.msg[1].AdditionalPrincipals = w.ClientInit[1].AdditionalPrincipals
                 /\ r.msg[1].DNSNames = w.ClientInit[1].DnsNames
                 /\ r.msg[1].PublicTLSKey = w.ClientInit[1].PublicTlsKey
                 /\ r.msg[1].PublicSSHKey = w.ClientInit[1].PublicSshKey
                 /\ r.msg[1].Expires = AsTime(w.ClientInit[1].Expires)
                 /\ r.msg[1].ProxySuppliedParameters = w.ClientInit[1].ProxySuppliedParameters
            ELSE /\ r.msg = <<>>
                 /\ r.err = "BadParameter: unrecognized join request message type"

C16_Witness ==
    /\ trPc = "done" /\ trOp = "decodeRequest"
    /\ trIn = <<WireOtherPayload>>
    /\ trOut = << [ msg |-> <<>>,
                    err |-> "BadParameter: unrecognized join request message type" ] >>

\* C17: convertResponseFromMessage maps a ServerInit to exactly one wire
\* response with the Init payload, a Result to exactly one with the Result
\* payload, both with no error, and any other Response (a nil one too) to
\* no wire response and the bad-parameter error.
C17_EncodeResponse ==
    (trPc = "done" /\ trOp = "encodeResponse") =>
        LET resp == trIn[1]
            r    == trOut[1]
        IN  CASE resp.kind = "ServerInit" ->
                   /\ r.err = Nil
                   /\ Len(r.msg) = 1
                   /\ r.msg[1].payload = "Init"
                   /\ Len(r.msg[1].Init) = 1 /\ r.msg[1].Result = <<>>
                   /\ r.msg[1].Init[1].JoinMethod = resp.JoinMethod
              [] resp.kind = "Result" ->
                   /\ r.err = Nil
                   /\ Len(r.msg) = 1
                   /\ r.msg[1].payload = "Result"
                   /\ Len(r.msg[1].Result) = 1 /\ r.msg[1].Init = <<>>
              [] OTHER ->
                   /\ r.msg = <<>>
                   /\ r.err = "BadParameter: unrecognized join response message type"

C17_Witness ==
    /\ trPc = "done" /\ trOp = "encodeResponse"
    /\ trIn = <<NilResponse>>
    /\ trOut = << [ msg |-> <<>>,
                    err |-> "BadParameter: unrecognized join response message type" ] >>

\* C18: a ClientInit, a ServerInit or a Result encoded to its wire form and
\* decoded again is the value it was, in all fields. Fails for a Result:
\* convertResultFromMessage puts the TLS certificate in the wire form's
\* SSH certificate.
C18_RoundTrip ==
    (trPc = "done" /\ trOp \in {"roundTripRequest", "roundTripResponse"}) =>
        /\ trOut[1].err = Nil
        /\ trOut[1].msg = trIn

\* C19: a second ClientInit sent on a stream makes the join fail with
\* ProtocolSequenceViolation: server.Join returns that error, unless the
\* stream is cancelled or the transport fails. Fails: the Service cannot
\* receive from the request channel (C25), so the read task stays in its
\* send of the first ClientInit, the second is never read from the stream
\* and nothing fails.
C19_OneJoinPerStream ==
    ( /\ Len(wireIn \o c2s) = 2
      /\ \A i \in 1..2 : (wireIn \o c2s)[i].payload = "ClientInit" )
    ~> ( \/ srvPc = "returned" /\ srvRet = "ProtocolSequenceViolation"
         \/ streamErr # Nil
         \/ fault )

\* The number of wire responses with a payload among those written.
WrittenWith(payload) ==
    Cardinality({ i \in 1..Len(wireOut) : wireOut[i].payload = payload })

\* C20: on a stream that completes successfully, the server having written
\* one ServerInit and then one Result, the responses the client has observed
\* are that ServerInit and then that Result. Fails: Client.Join has no
\* receive task (C10) and returns nil with nothing delivered; and
\* server.Join never returns nil, its write task having no clean exit
\* (C25).
C20_ResponseSequence ==
    ( /\ cliPc = "returned" /\ cliRet = Nil /\ ~fault
      /\ Len(wireOut) = 2
      /\ wireOut[1].payload = "Init" /\ wireOut[2].payload = "Result" )
    => ( /\ Len(cliDelivered) = 2
         /\ cliDelivered[1].kind = "ServerInit"
         /\ cliDelivered[2].kind = "Result" )

\* C21: once a ClientInit naming a join method without a verifier has been
\* received from the stream, server.Join returns UnsupportedJoinMethod with
\* nothing written to the stream, unless the stream is cancelled or the
\* transport fails. Fails: the Service cannot receive from the request
\* channel (C25); it never sees the ClientInit and the read task stays in
\* its send.
C21_UnsupportedMethod ==
    (wireIn # <<>> /\ wireIn[1] = WireRequest("unknown-method"))
    ~> ( \/ srvPc = "returned" /\ srvRet = "UnsupportedJoinMethod" /\ wireOut = <<>>
         \/ streamErr # Nil
         \/ fault )

\* C22: when server.Join has returned an error, no Result was written to the
\* stream. Fails, with the channels used as designed: after the Result is
\* written and the business logic has returned nil, the read task is still
\* in stream.Recv; when the peer, which may already hold the Result, ends
\* the stream without a half-close or sends a request that does not decode,
\* Join returns an error on a stream that carried the credentials (no
\* transport failure; the business logic returned nil and the write task
\* ended on the closed response channel).
C22_NoResultOnFailure ==
    (srvPc = "returned" /\ srvRet # Nil /\ ~fault /\ svcRet = Nil /\ wrRet = Nil)
        => WrittenWith("Result") = 0

\* C23: when the peer has sent a ClientInit and half-closed, and the read
\* task has received the ClientInit, the read task delivers it, sees the
\* half-close and returns nil, unless the stream is cancelled or the
\* transport fails. Fails: the Service cannot receive from the request
\* channel (C25); the read task stays in its send of the ClientInit and
\* never gets to the io.EOF.
C23_HalfCloseLosesNothing ==
    (wireIn = <<WireRequest("token")>> /\ c2s = <<>> /\ c2sClosed)
    ~> ( \/ rdPc = "done" /\ rdRet = Nil /\ rdSawEOF
         \/ streamErr # Nil
         \/ fault )

\* C24: with the channels used as designed, when server.Join has returned,
\* its result is nil exactly when the three tasks returned nil; the read
\* task returned nil only on the peer's half-close and the write task only
\* on the closed response channel; otherwise the result is the error one of
\* the tasks returned.
C24_NoErrorSwallowed ==
    /\ (rdPc = "done" /\ rdRet = Nil) => rdSawEOF
    /\ (wrPc = "done" /\ wrRet = Nil) => (wrSawClosed /\ responsesClosed)
    /\ srvPc = "returned" =>
          /\ srvRet = Nil <=> (svcRet = Nil /\ rdRet = Nil /\ wrRet = Nil)
          /\ srvRet # Nil => srvRet \in {svcRet, rdRet, wrRet}

C24_Witness ==
    /\ srvPc = "returned"
    /\ srvRet = Nil
    /\ rdSawEOF
    /\ wrSawClosed
    /\ svcGot # <<>>
    /\ WrittenWith("Result") = 1

\* C25: the request channel is closed only by the read task, at its return,
\* and once; no send happens on a closed channel and no channel is closed
\* twice, so no task panics. Fails: Service.Join is declared with the
\* request channel send-only and the response channel receive-only, so the
\* business logic is a second writer of the request channel: its close, or
\* its send after the read task's close, panics.
C25_SingleWriter ==
    /\ [][ requestsClosed' # requestsClosed =>
             /\ requestsClosed = 0 /\ requestsClosed' = 1
             /\ rdPc \in {"recv", "send"} /\ rdPc' = "done" ]_vars
    /\ [](requestsClosed <= 1 /\ rdPc # "panicked")

\* C26: of two streams served at once, each has its own context and its own
\* channels. The context of a call is done only when that stream was
\* cancelled, one of its own tasks failed or its own Join returned; a task
\* returns a cancellation error only on a stream that was itself cancelled;
\* the read task of a stream holds, its business logic has received, its
\* write task holds and its wire carries only messages of that stream; the
\* request channel of a stream is closed by its own read task, once; and
\* every step of one call leaves the state of the other call as it was.
C26_StreamsIsolated ==
    /\ [](\A s \in StreamIds :
             /\ st[s].ctxErr # Nil =>
                   \/ st[s].streamErr # Nil
                   \/ st[s].groupErr # Nil
                   \/ st[s].pc = "returned"
             /\ st[s].groupErr \in CancelErrs => st[s].streamErr # Nil
             /\ st[s].rdMsg # <<>> => st[s].rdMsg = <<ClientInit(MethodOf(s))>>
             /\ \A i \in 1..Len(st[s].svcGot) :
                    st[s].svcGot[i] = ClientInit(MethodOf(s))
             /\ st[s].wrMsg # <<>> =>
                    st[s].wrMsg = convertResponseFromMessage(ServerInit(MethodOf(s))).msg
             /\ \A i \in 1..Len(st[s].wireOut) :
                    <<st[s].wireOut[i]>> =
                        convertResponseFromMessage(ServerInit(MethodOf(s))).msg
             /\ st[s].reqClosed = IF st[s].rdPc = "done" THEN 1 ELSE 0)
    /\ [][ \E s \in StreamIds : \A o \in StreamIds \ {s} : st'[o] = st[o] ]_vars

C26_Witness ==
    /\ st["a"].pc = "returned"
    /\ st["a"].ret \in CancelErrs
    /\ st["a"].svcGot = <<ClientInit("token")>>
    /\ st["a"].reqClosed = 1
    /\ st["b"].pc = "wait"
    /\ st["b"].ctxErr = Nil
    /\ st["b"].svcGot = <<ClientInit("iam")>>
    /\ Len(st["b"].wireOut) = 1
    /\ st["b"].wireOut[1].payload = "Init"
    /\ st["b"].reqClosed = 0

\* C27: the ClientInit decoded from a wire ClientInit has the wire message's
\* join method, token name, node name, role, additional principals, DNS
\* names, public TLS key and public SSH key, each in its own field, and its
\* expiry as a time; it has ProxySuppliedParameters exactly when the wire
\* message has them, and then with the same remote address and client
\* version.
C27_ClientInitKept ==
    (trPc = "done" /\ trOp = "decodeRequest" /\ trIn[1].payload = "ClientInit") =>
        LET w == trIn[1].ClientInit[1]
            m == trOut[1].msg[1]
        IN  /\ <<m.JoinMethod, m.TokenName, m.NodeName, m.Role>>
                  = <<w.JoinMethod, w.TokenName, w.NodeName, w.Role>>
            /\ <<m.AdditionalPrincipals, m.DNSNames>>
                  = <<w.AdditionalPrincipals, w.DnsNames>>
            /\ <<m.PublicTLSKey, m.PublicSSHKey>> = <<w.PublicTlsKey, w.PublicSshKey>>
            /\ m.Expires = AsTime(w.Expires)
            /\ (m.ProxySuppliedParameters = <<>>) <=> (w.ProxySuppliedParameters = <<>>)
            /\ w.ProxySuppliedParameters # <<>> =>
                  /\ Len(m.ProxySuppliedParameters) = 1
                  /\ m.ProxySuppliedParameters[1].RemoteAddr
                        = w.ProxySuppliedParameters[1].RemoteAddr
                  /\ m.ProxySuppliedParameters[1].ClientVersion
                        = w.ProxySuppliedParameters[1].ClientVersion

C27_Witness ==
    /\ trPc = "done" /\ trOp = "decodeRequest"
    /\ trIn[1].payload = "ClientInit"
    /\ trIn[1].ClientInit[1].ProxySuppliedParameters # <<>>
    /\ trIn[1].ClientInit[1].AdditionalPrincipals # <<>>
    /\ trOut[1].msg[1].ProxySuppliedParameters[1].RemoteAddr = "10.0.0.1:3025"

\* C30: the wire Result encoded from a Result has Result.TLSCert as its TLS
\* certificate, Result.TLSCACerts as its TLS CA certificates, Result.SSHCert
\* as its SSH certificate, Result.SSHCAKeys as its SSH CA keys and
\* Result.HostID as its host identifier. Fails: the SSH certificate field is
\* assigned the TLS certificate.
C30_ResultFieldsKept ==
    (trPc = "done" /\ trOp = "encodeResponse" /\ trIn[1].kind = "Result") =>
        LET res == trIn[1]
            w   == trOut[1].msg[1].Result[1]
        IN  /\ w.TlsCert = res.TLSCert
            /\ w.TlsCaCerts = res.TLSCACerts
            /\ w.SshCert = res.SSHCert
            /\ w.SshCaKeys = res.SSHCAKeys
            /\ w.HostId = res.HostID

\* C31: when server.Join has returned, the business-logic task, the read
\* task and the write task have returned: none is running or blocked, and
\* the read task holds no request.
C31_JoinWaitsForTasks ==
    srvPc = "returned" =>
        /\ svcPc = "done" /\ rdPc = "done" /\ wrPc = "done"
        /\ rdMsg = <<>>

C31_Witness ==
    /\ srvPc = "returned"
    /\ firstFail # <<>> /\ firstFail[1] = "service"
    /\ rdRet = "Canceled"
    /\ wrRet = "Canceled"
    /\ wireIn # <<>>

\* C32: on a stream accepted by the registered server the business-logic
\* task has a Service to invoke: the server's service is not missing and the
\* task does not panic. Fails: RegisterJoinServiceServer registers &server{},
\* whose service is nil.
C32_ServiceConfigured ==
    srvPc # "idle" => (svcState # "missing" /\ svcPc # "panicked")

\* C33: when the business logic has returned nil and the read task holds a
\* request received after that, on a stream that is not cancelled, the read
\* task terminates and server.Join returns. Fails: a nil return does not
\* cancel the group's context, nothing receives from the request channel,
\* and the read task stays in its select for as long as the stream is not
\* cancelled; g.Wait waits for it.
C33_LateRequestTerminates ==
    (svcPc = "done" /\ svcRet = Nil /\ rdPc = "send" /\ streamErr = Nil)
        ~> (rdPc = "done" /\ srvPc = "returned")

\* C34: with the channels used as designed, a response that does not encode
\* makes the write task return the encode error in the step that took it; a
\* Send that does not write the response makes it return the send error;
\* and once the write task has returned, no response is taken from the
\* business logic or written to the stream any more.
C34_WriteErrorIsFinal ==
    /\ [][ (wrPc = "select" /\ svcSent' # svcSent
              /\ convertResponseFromMessage(svcSent'[Len(svcSent')]).err # Nil)
            => /\ wrPc' = "done"
               /\ wrRet' = convertResponseFromMessage(svcSent'[Len(svcSent')]).err
               /\ wireOut' = wireOut ]_vars
    /\ [][ (wrPc = "send" /\ wrPc' # "send")
            => \/ wrPc' = "select" /\ wireOut' = Append(wireOut, wrMsg[1])
               \/ /\ wrPc' = "done"
                  /\ wrRet' \in { "sending server response to stream: Canceled",
                                  "sending server response to stream: Unavailable" }
                  /\ wireOut' = wireOut ]_vars
    /\ [][ wrPc = "done"
            => (wrPc' = "done" /\ wrRet' = wrRet /\ wireOut' = wireOut
                  /\ svcSent' = svcSent) ]_vars

C34_Witness ==
    /\ wrPc = "done"
    /\ wrRet = "sending server response to stream: Unavailable"
    /\ Len(svcSent) = 2
    /\ Len(wireOut) = 1
    /\ svcPc = "done"
    /\ srvPc = "returned"
    /\ srvRet = wrRet

\* C35: the error server.Join returns tells a failure of the read or write
\* task apart from a failure of the Join Service: when the first error of the
\* group comes from the read or the write task, it is not an error the
\* service could have returned in that same state.
C35_OriginDistinguishable ==
    [][ (firstFail = <<>> /\ firstFail' # <<>>
           /\ firstFail'[1] \in {"read", "write"})
        => firstFail'[2] \notin (SvcResults \ {Nil}) ]_vars

\* C36: when opening the outbound stream fails, Client.Join returns that
\* error and no task was started: nothing was taken from the caller's
\* requests channel, nothing was sent, nothing was delivered on the responses
\* channel.
C36_OpenFailureStartsNothing ==
    cliRet = "open stream error" =>
        /\ cliPc = "returned"
        /\ sendPc = "idle"
        /\ sendRet = Nil
        /\ cliEnq = <<>>
        /\ cliSent = <<>>
        /\ cliDelivered = <<>>

C36_Witness ==
    /\ cliPc = "returned"
    /\ cliRet = "open stream error"
    /\ cliReqClosed
    /\ cliCtxErr = "Canceled"

\* C37: in the list Find returns, no path occurs twice and the paths stand in
\* the order of the first visited package that brought each of them in; no
\* path has a configured exclude as a prefix; and each path is the trimmed
\* path of a visited package that declares a function without receiver whose
\* name starts with Benchmark and which has exactly one parameter, of type
\* *X.B.
NumParams(fn) ==
    LET n(i) == IF fn.params[i].names = 0 THEN 1 ELSE fn.params[i].names
    IN  IF Len(fn.params) = 0 THEN 0
        ELSE IF Len(fn.params) = 1 THEN n(1)
        ELSE n(1) + n(2)

DeclaresBenchmark(pkg) ==
    \E i \in 1..Len(pkg.Syntax) : \E j \in 1..Len(pkg.Syntax[i]) :
        LET fn == pkg.Syntax[i][j]
        IN  /\ fn.kind = "func"
            /\ ~fn.recv
            /\ HasPrefix(fn.name, BenchmarkPrefix)
            /\ NumParams(fn) = 1
            /\ fn.params[1].star
            /\ fn.params[1].inner = "sel"
            /\ fn.params[1].sel = "B"

FirstBroughtIn(path) ==
    CHOOSE k \in 1..Len(bfPkgs) :
        /\ TrimmedPath(bfPkgs[k].PkgPath) = path
        /\ hasBenchmark(bfPkgs[k])
        /\ \A h \in 1..(k - 1) :
               ~(TrimmedPath(bfPkgs[h].PkgPath) = path /\ hasBenchmark(bfPkgs[h]))

C37_FindResult ==
    (bfPc = "returned" /\ bfErr = Nil) =>
        /\ \A i, j \in 1..Len(bfResult) : bfResult[i] = bfResult[j] => i = j
        /\ \A i \in 1..Len(bfResult) : ~matchesAnyPrefix(bfResult[i], bfExcludes)
        /\ \A i \in 1..Len(bfResult) :
               \E k \in 1..Len(bfPkgs) :
                   /\ TrimmedPath(bfPkgs[k].PkgPath) = bfResult[i]
                   /\ DeclaresBenchmark(bfPkgs[k])
        /\ \A i, j \in 1..Len(bfResult) :
               i < j => FirstBroughtIn(bfResult[i]) < FirstBroughtIn(bfResult[j])

\* C38: updateKubeServer returns the error and has the client upsert nothing,
\* the cluster staying as it was, when the resource does not unmarshal, when
\* the servers cannot be fetched, and (NotFound) when no server of the
\* cluster has the resource's name as its name, hostname or discovered name;
\* it has the client upsert only when such a server exists.
NameMatches(s, name) ==
    \/ s.name = name
    \/ s.hostname = name
    \/ s.discovered # "" /\ s.discovered = name

SomeServerMatches(name) ==
    \E i \in 1..Len(ksCluster0) : NameMatches(ksCluster0[i], name)

C38_UpdateOnlyExisting ==
    ksOp = "update" =>
        /\ (ksPc = "returned" /\ ksRet \in {"unmarshal error", "get error", "NotFound"})
               => (ksCalls = <<>> /\ ksCluster = ksCluster0)
        /\ (ksPc \notin {"idle", "unmarshal"} /\ ~ksRaw.valid)
               => (ksPc = "returned" /\ ksRet = "unmarshal error")
        /\ (ksPc \in {"upsert", "returned"} /\ ksRaw.valid /\ ksRet # "get error"
              /\ ~SomeServerMatches(ksRaw.server.name))
               => (ksPc = "returned" /\ ksRet = "NotFound")
        /\ ksCalls # <<>> => (ksRaw.valid /\ SomeServerMatches(ksRaw.server.name))

C38_Witness ==
    /\ ksOp = "update"
    /\ ksPc = "returned"
    /\ ksRet = "NotFound"
    /\ ksRaw.valid
    /\ Len(ksCluster0) >= 2
    /\ ksCalls = <<>>

\* C39: when deleteKubeServer returns nil, the client was asked one delete
\* for each server whose name, hostname or discovered name is the
\* reference's, by that server's host ID and the one resolved name, those
\* servers are gone and the other servers are still there; when the name
\* does not resolve, the client was asked no delete and the cluster is as it
\* was. Fails: a server whose discovered name is the reference's is left in
\* place when another server carries the reference as its name.
MatchedServers == SelectSeq(ksCluster0, LAMBDA s : NameMatches(s, ksRef))

C10_ResponsesDelivered ==
    (cliPc = "returned" /\ cliRet = Nil /\ ~fault) =>
        /\ Len(cliDelivered) = Len(wireOut)
        /\ \A i \in 1..Len(wireOut) :
              convertResponseFromMessage(cliDelivered[i]).msg = <<wireOut[i]>>

====
